---- MODULE Spec2Model ----
(***************************************************************************)
(* Model of the indexing pipeline of Second-brain-interface.               *)
(*                                                                         *)
(*   SpecDeb    backend/infrastructure/debouncer.py: the per-key timer     *)
(*              table, the threading.Timer threads it starts, the thread   *)
(*              that calls trigger and the thread that calls cancel_all.   *)
(*   SpecIndex  backend/application/index_service.py: rebuild_index and    *)
(*              index_single_note run by request and watcher threads over  *)
(*              the vault on disk and the chunk and link collections.      *)
(*   SpecLog, SpecWatch, SpecMap, SpecNotes, SpecRebuild, SpecStop,        *)
(*   SpecMixed, SpecSearch, SpecChunk                                      *)
(*              the event log, the handler of the watcher, the file map,   *)
(*              the note operations, one rebuild, stop_watcher, rebuilds   *)
(*              beside note operations, search, and the chunker.           *)
(***************************************************************************)
EXTENDS Integers, Sequences, FiniteSets, TLC

(***************************************************************************)
(* Bounds of the model and program constants.                              *)
(***************************************************************************)
\* number of threading.Timer objects (= trigger calls) in one run
MaxTimers == 2
\* instant at which the discrete clock stops counting
MaxTime == 4
\* DEBOUNCE_SECONDS, in clock ticks
Delay == 2

\* largest number of chunks of a note body
MaxChunks == 2
\* operations (rebuild_index, index_single_note) called in one run
MaxOps == 2
\* changes the user makes to the vault in one run
MaxWrites == 1

\* longest result list of hybrid_search
MaxHits == 2
\* links in one answer of get_related_notes_batch
MaxLinks == 3

\* lines of a note body
MaxLines == 4
\* largest chunk_size and chunk_overlap a Chunker is constructed with
MaxSize == 3

\* maxlen of the EventLog under study
Capacity == 2
\* WatcherEvent objects recorded in one run
MaxEvents == 4
\* get_recent calls in one run
MaxReads == 2
\* largest limit passed to get_recent
MaxLimit == 3

Keys == {"a.md", "b.md"}
TimerIds == 1..MaxTimers
\* value of _timers.get(key) when the key has no entry
NoTimer == 0

VARIABLES
    \* ---- Debouncer ----
    now,          \* the clock
    timer,        \* timer object i: [key, state, deadline (while waiting), swept, raised]
    timers,       \* Debouncer._timers: key -> timer id, NoTimer when absent
    nTimers,      \* timer objects created so far
    trigPc,       \* the triggering thread: "idle", or "called" (inside trigger, before the lock)
    trigKey,      \* the key of the trigger call in progress
    calls,        \* history: callback invocations per key
    trigCount,    \* history: trigger calls per key
    lastArrival,  \* history: instant of the latest trigger call per key
    rapid,        \* history: every trigger of the key came less than Delay after the previous one
    cancelled,    \* history: cancel_all has run
    \* ---- IndexService, the vault and the storage collaborator ----
    rebuilding,   \* IndexService._rebuilding
    lastIndexed,  \* IndexService._last_indexed: 0 is None, n the instant of the n-th successful rebuild
    fileMap,      \* VaultFileMap._map: stem -> relative path, NoPath when absent
    vault,        \* the files on disk: path -> [exists, body]
    chunks,       \* chunk collection: path -> chunk index -> body the point was cut from (0: no point)
    links,        \* link collection: source path -> link texts stored
    th,           \* per thread: [pc, op, arg, files, todo, cur, notes, made, exc] and the history fields deleted, solo
    lastReturn,   \* history: how the latest operation returned, until the next call is made
    nOps,         \* operations called so far
    nWrites,      \* changes made to the vault so far
    lastRead,     \* history, per path: the body of the latest read of the file by _index_file
    raisedEver,   \* history: some collaborator call raised
    \* ---- EventLog ----
    buffer,       \* EventLog._buffer, oldest event first
    nEvents,      \* WatcherEvent objects constructed so far
    recorded,     \* history: every event appended, in the order of the appends
    wr,           \* per writer thread: [pc, ev], ev the event it is recording
    rd,           \* per reader thread: [pc, limit, items] and the history field at
    nReads,       \* get_recent calls made so far
    lastResult,   \* the list the latest get_recent returned
    \* ---- _VaultEventHandler ----
    event,        \* the notification the handler was called with last
    invoked,      \* the callbacks the handler invoked for it, in order
    \* ---- VaultFileMap ----
    disk,         \* the relative paths of the files below the vault root
    walk,         \* the order in which os.walk lists the files of this vault, <<>> before the first scan
    table,        \* VaultFileMap._map as a set of <<key, path>> items
    scanned,      \* history: the latest operation was scan, and the disk is as it was
    replaced,     \* history: the path the latest update_file displaced, <<>> when none
    dropped,      \* history: <<path argument, path of the item>> when the latest operation was a remove_file that took an item out, else <<>>
    scanPos,      \* the scan in progress: the position in the listing of the file it looks at next, 0 when no scan runs
    before,       \* history: the table as the scan in progress found it
    \* ---- IndexService.start_watcher / stop_watcher ----
    watching,     \* FileWatcher._running: the observer delivers notifications
    status,       \* the IndexStatus.last_indexed of the latest get_status, <<>> before the first
    \* ---- SearchService ----
    searched,     \* history: <<>>, or the one search made: [results, include_related, relations]
    batchCalls,   \* history: the arguments of the get_related_notes_batch calls, in order
    related,      \* SearchResponse.related_notes of that search
    \* ---- Chunker ----
    ck,           \* the one chunk() call of a run: [pc, chunk_size, chunk_overlap, note_path,
                  \* content, sections, chunks, heading_context, text, start, subs] and the
                  \* history fields at, iters
    \* ---- QdrantAdapter, the link collection point by point ----
    linkStore,    \* the points of the link collection: [id, source_path, link_text]
    \* ---- Debouncer._lock ----
    lock          \* the timer whose _fire holds the lock between two steps, NoTimer when it is free

dbVars == <<now, timer, timers, nTimers, trigPc, trigKey, calls, trigCount,
            lastArrival, rapid, cancelled>>

ixVars == <<rebuilding, lastIndexed, fileMap, vault, chunks, links, th, lastReturn,
            nOps, nWrites, lastRead, raisedEver>>

logVars == <<buffer, nEvents, recorded, wr, rd, nReads, lastResult>>

watchVars == <<event, invoked>>

mapVars == <<disk, walk, table, scanned, replaced, dropped, scanPos, before>>

svcVars == <<watching, status>>

srVars == <<searched, batchCalls, related>>

ckVars == <<ck>>

lkVars == <<linkStore>>

cbVars == <<lock>>

vars == <<dbVars, ixVars, logVars, watchVars, mapVars, svcVars, srVars, ckVars, lkVars, cbVars>>

\* what the actions of one component leave alone
exceptDb == <<ixVars, logVars, watchVars, mapVars, svcVars, srVars, ckVars, lkVars, cbVars>>
exceptIx == <<dbVars, logVars, watchVars, mapVars, svcVars, srVars, ckVars, lkVars, cbVars>>
exceptLog == <<dbVars, ixVars, watchVars, mapVars, svcVars, srVars, ckVars, lkVars, cbVars>>
exceptWatch == <<dbVars, ixVars, logVars, mapVars, svcVars, srVars, ckVars, lkVars, cbVars>>
exceptMap == <<dbVars, ixVars, logVars, watchVars, svcVars, srVars, ckVars, lkVars, cbVars>>
exceptLk == <<dbVars, ixVars, logVars, watchVars, mapVars, svcVars, srVars, ckVars, cbVars>>

(***************************************************************************)
(* Debouncer                                                               *)
(***************************************************************************)
\* A threading.Timer thread is "waiting" in finished.wait(interval); cancel()
\* sets finished and the thread ends without calling ("cancelled"); once the
\* wait has timed out and the is_set() test has passed it is "expired" and
\* goes on to call _fire; "popped" is _fire after its locked section and
\* before the callback; "running" is inside the callback, where its duration
\* matters; "done" is the thread's normal end; "crashed" is an
\* exception leaving the thread's run().
TimerStates == {"unused", "waiting", "cancelled", "expired", "popped", "running", "done",
                "crashed"}

FreshTimer == [key |-> "a.md", state |-> "unused", deadline |-> 0,
               swept |-> FALSE, raised |-> FALSE]

InitDeb ==
    /\ now = 0
    /\ timer = [i \in TimerIds |-> FreshTimer]
    /\ timers = [k \in Keys |-> NoTimer]
    /\ nTimers = 0
    /\ trigPc = "idle"
    /\ trigKey = "a.md"
    /\ calls = [k \in Keys |-> 0]
    /\ trigCount = [k \in Keys |-> 0]
    /\ lastArrival = [k \in Keys |-> 0]
    /\ rapid = [k \in Keys |-> TRUE]
    /\ cancelled = FALSE

\* Timer.cancel(): sets the finished event; it stops a timer that is still
\* waiting and has no effect on one whose wait is over.
Cancel(t) ==
    IF t.state = "waiting" THEN [t EXCEPT !.state = "cancelled", !.deadline = 0] ELSE t

\* pending_count: len(self._timers)
PendingCount == Cardinality({k \in Keys : timers[k] # NoTimer})

\* Time passes.
Tick ==
    /\ now < MaxTime
    /\ now' = now + 1
    /\ UNCHANGED exceptDb
    /\ UNCHANGED <<timer, timers, nTimers, trigPc, trigKey, calls, trigCount,
                   lastArrival, rapid, cancelled>>

\* The watcher thread enters trigger(key).
TriggerCall(k) ==
    /\ trigPc = "idle"
    /\ nTimers < MaxTimers
    /\ now + Delay <= MaxTime
    /\ trigPc' = "called"
    /\ trigKey' = k
    /\ trigCount' = [trigCount EXCEPT ![k] = @ + 1]
    /\ lastArrival' = [lastArrival EXCEPT ![k] = now]
    /\ rapid' = [rapid EXCEPT ![k] = @ /\ (trigCount[k] = 0 \/ now - lastArrival[k] < Delay)]
    /\ UNCHANGED exceptDb
    /\ UNCHANGED <<now, timer, timers, nTimers, calls, cancelled>>

\* Mutant of TriggerEffect: one timer shared by all keys, so a trigger cancels
\* whatever timer is pending.
TriggerEffectSharedTimer(k, n) ==
    /\ timer' = [i \in TimerIds |->
                   IF i = n
                   THEN [key |-> k, state |-> "waiting", deadline |-> now + Delay,
                         swept |-> FALSE, raised |-> FALSE]
                   ELSE IF \E b \in Keys : timers[b] = i THEN Cancel(timer[i])
                   ELSE timer[i]]
    /\ timers' = [b \in Keys |-> IF b = k THEN n ELSE NoTimer]

\* The timer table and timer objects after the locked section of trigger(k)
\* that creates timer object n: the existing timer of k, if any, is cancelled,
\* and a new timer is stored under k and started.
TriggerEffect(k, n) ==
    /\ timer' = [i \in TimerIds |->
                   IF i = n
                   THEN [key |-> k, state |-> "waiting", deadline |-> now + Delay,
                         swept |-> FALSE, raised |-> FALSE]
                   ELSE IF timers[k] # NoTimer /\ i = timers[k] THEN Cancel(timer[i])
                   ELSE timer[i]]
    /\ timers' = [timers EXCEPT ![k] = n]

\* trigger: the section under the lock.
TriggerLocked ==
    /\ trigPc = "called"
    /\ TriggerEffect(trigKey, nTimers + 1)
    /\ nTimers' = nTimers + 1
    /\ trigPc' = "idle"
    /\ UNCHANGED exceptDb
    /\ UNCHANGED <<now, trigKey, calls, trigCount, lastArrival, rapid, cancelled>>

\* Timer.run: finished.wait(interval) times out and finished is not set.
\* The clock stops counting at MaxTime, which stands for every later instant.
Expire(i) ==
    /\ timer[i].state = "waiting"
    /\ now >= timer[i].deadline \/ now = MaxTime
    /\ timer' = [timer EXCEPT ![i].state = "expired", ![i].deadline = 0]
    /\ UNCHANGED exceptDb
    /\ UNCHANGED <<now, timers, nTimers, trigPc, trigKey, calls, trigCount,
                   lastArrival, rapid, cancelled>>

\* _fire, the section under the lock: self._timers.pop(key, None).
FirePop(i) ==
    /\ timer[i].state = "expired"
    /\ timers' = [timers EXCEPT ![timer[i].key] = NoTimer]
    /\ timer' = [timer EXCEPT ![i].state = "popped"]
    /\ UNCHANGED exceptDb
    /\ UNCHANGED <<now, nTimers, trigPc, trigKey, calls, trigCount,
                   lastArrival, rapid, cancelled>>

\* Mutant of AfterRaise: no try/except around the callback.
AfterRaiseUncaught == "crashed"

\* The state in which the timer thread ends when the callback raised.
AfterRaise == "done"

\* _fire, outside the lock: the callback is invoked and returns or raises;
\* `except Exception` catches what it raises.
FireCallback(i) ==
    /\ timer[i].state = "popped"
    /\ calls' = [calls EXCEPT ![timer[i].key] = @ + 1]
    /\ \E raises \in BOOLEAN :
          timer' = [timer EXCEPT ![i].state = IF raises THEN AfterRaise ELSE "done",
                                 ![i].raised = raises]
    /\ UNCHANGED exceptDb
    /\ UNCHANGED <<now, timers, nTimers, trigPc, trigKey, trigCount,
                   lastArrival, rapid, cancelled>>

\* cancel_all: every timer in the table is cancelled and the table cleared,
\* under the lock. (swept, a history field, marks the timers that were started
\* and had not invoked the callback when cancel_all ran.)
CancelAll ==
    /\ timer' = [i \in TimerIds |->
                   [(IF \E k \in Keys : timers[k] = i THEN Cancel(timer[i]) ELSE timer[i])
                       EXCEPT !.swept = timer[i].state \in {"waiting", "expired", "popped"}]]
    /\ timers' = [k \in Keys |-> NoTimer]
    /\ cancelled' = TRUE
    /\ UNCHANGED exceptDb
    /\ UNCHANGED <<now, nTimers, trigPc, trigKey, calls, trigCount, lastArrival, rapid>>

(***************************************************************************)
(* Debouncer: the lock and the callback as it runs                         *)
(***************************************************************************)
\* Mutant of LockAfterPop: the callback is invoked inside the with block.
LockAfterPopHeld(i) == i

\* _fire: the holder of the lock when the `with self._lock` block of timer
\* thread i is left
LockAfterPop(i) == NoTimer

\* _fire, the `with self._lock` block: the thread waits for the lock, pops
\* its key and leaves the block.
FireLocked(i) ==
    /\ timer[i].state = "expired"
    /\ lock = NoTimer
    /\ timers' = [timers EXCEPT ![timer[i].key] = NoTimer]
    /\ timer' = [timer EXCEPT ![i].state = "popped"]
    /\ lock' = LockAfterPop(i)
    /\ UNCHANGED <<now, nTimers, trigPc, trigKey, calls, trigCount,
                   lastArrival, rapid, cancelled>>
    /\ UNCHANGED <<ixVars, logVars, watchVars, mapVars, svcVars, srVars, ckVars, lkVars>>

\* _fire: `self._callback(key)` is entered.
CallbackBegin(i) ==
    /\ timer[i].state = "popped"
    /\ timer' = [timer EXCEPT ![i].state = "running"]
    /\ calls' = [calls EXCEPT ![timer[i].key] = @ + 1]
    /\ UNCHANGED <<now, timers, nTimers, trigPc, trigKey, trigCount,
                   lastArrival, rapid, cancelled>>
    /\ UNCHANGED exceptDb

\* The callback of timer thread i calls trigger(k): threading.Lock is not
\* reentrant, the call waits until the lock is free.
CallbackTrigger(i, k) ==
    /\ timer[i].state = "running"
    /\ lock = NoTimer
    /\ nTimers < MaxTimers
    /\ now + Delay <= MaxTime
    /\ TriggerEffect(k, nTimers + 1)
    /\ nTimers' = nTimers + 1
    /\ trigCount' = [trigCount EXCEPT ![k] = @ + 1]
    /\ lastArrival' = [lastArrival EXCEPT ![k] = now]
    /\ rapid' = [rapid EXCEPT ![k] = @ /\ (trigCount[k] = 0 \/ now - lastArrival[k] < Delay)]
    /\ UNCHANGED <<now, trigPc, trigKey, calls, cancelled>>
    /\ UNCHANGED exceptDb

\* The callback of timer thread i calls pending_count: the table is read
\* under the lock and nothing changes.
CallbackPendingCount(i) ==
    /\ timer[i].state = "running"
    /\ lock = NoTimer
    /\ PendingCount \in 0..MaxTimers
    /\ UNCHANGED vars

\* The callback of timer thread i calls cancel_all.
CallbackCancelAll(i) ==
    /\ timer[i].state = "running"
    /\ lock = NoTimer
    /\ CancelAll

\* _fire: the callback returns or raises, and the timer thread ends.
CallbackEnd(i) ==
    /\ timer[i].state = "running"
    /\ \E raises \in BOOLEAN :
          timer' = [timer EXCEPT ![i].state = IF raises THEN AfterRaise ELSE "done",
                                 ![i].raised = raises]
    /\ UNCHANGED <<now, timers, nTimers, trigPc, trigKey, calls, trigCount,
                   lastArrival, rapid, cancelled>>
    /\ UNCHANGED exceptDb

\* trigger, the `with self._lock` block entered by the thread that waits for it
TriggerAcquired ==
    /\ lock = NoTimer
    /\ TriggerLocked

NextFire ==
    \/ Tick
    \/ \E k \in Keys : TriggerCall(k)
    \/ TriggerAcquired
    \/ \E i \in TimerIds : Expire(i)
    \/ \E i \in TimerIds : FireLocked(i)
    \/ \E i \in TimerIds : CallbackBegin(i)
    \/ \E i \in TimerIds, k \in Keys : CallbackTrigger(i, k)
    \/ \E i \in TimerIds : CallbackPendingCount(i)
    \/ \E i \in TimerIds : CallbackCancelAll(i)
    \/ \E i \in TimerIds : CallbackEnd(i)

(***************************************************************************)
(* IndexService.stop_watcher, with the watcher started                     *)
(***************************************************************************)
\* start_watcher has created the debouncer and started the watcher
InitSvc ==
    /\ watching = TRUE
    /\ status = <<>>

\* The observer thread delivers a change of note k: the handler calls
\* on_changed, which is debouncer.trigger.
Notify(k) ==
    /\ watching
    /\ TriggerCall(k)

\* stop_watcher: `self._debouncer.cancel_all()`
StopCancelAll ==
    /\ watching
    /\ ~cancelled
    /\ CancelAll

\* stop_watcher: `self._watcher.stop()`, and the return. observer.join waits
\* for the dispatch in progress.
StopWatcher ==
    /\ watching
    /\ cancelled
    /\ trigPc = "idle"
    /\ watching' = FALSE
    /\ UNCHANGED <<status, dbVars, ixVars, logVars, watchVars, mapVars, srVars, ckVars, lkVars, cbVars>>

NextStop ==
    \/ Tick
    \/ \E k \in Keys : Notify(k)
    \/ TriggerLocked
    \/ \E i \in TimerIds : Expire(i)
    \/ \E i \in TimerIds : FirePop(i)
    \/ \E i \in TimerIds : FireCallback(i)
    \/ StopCancelAll
    \/ StopWatcher


(***************************************************************************)
(* EventLog                                                                *)
(***************************************************************************)
Writers == {"w1", "w2"}
Readers == {"r1"}
Limits == 0..MaxLimit
\* events are told apart by the order of their construction
EventIds == 1..MaxEvents

WriterIdle == [pc |-> "idle", ev |-> 0]
ReaderIdle == [pc |-> "idle", limit |-> 0, items |-> <<>>, at |-> 0]

InitLog ==
    /\ buffer = <<>>
    /\ nEvents = 0
    /\ recorded = <<>>
    /\ wr = [w \in Writers |-> WriterIdle]
    /\ rd = [r \in Readers |-> ReaderIdle]
    /\ nReads = 0
    /\ lastResult = <<>>

\* Mutant of DequeAppend: a deque without maxlen.
DequeAppendUnbounded(buf, e) == Append(buf, e)

\* deque(maxlen=Capacity).append(e): a full deque drops the item at its left end
DequeAppend(buf, e) ==
    IF Len(buf) = Capacity THEN Append(Tail(buf), e) ELSE Append(buf, e)

\* Mutant of LockedAppend: no lock, so an append that races with another
\* writer's is lost.
LockedAppendRacy(w) ==
    IF \E v \in Writers \ {w} : wr[v].pc = "rec" THEN buffer ELSE DequeAppend(buffer, wr[w].ev)

\* `with self._lock: self._buffer.append(event)` by writer w
LockedAppend(w) == DequeAppend(buffer, wr[w].ev)

\* Mutant of Reversed: the items are returned in buffer order.
ReversedNot(s) == s

\* list(reversed(items))
Reversed(s) == [i \in 1..Len(s) |-> s[Len(s) + 1 - i]]

\* s[:n] for n >= 0
Prefix(s, n) == SubSeq(s, 1, IF n < Len(s) THEN n ELSE Len(s))

\* A thread constructs a WatcherEvent and calls record(event).
RecordCall(w) ==
    /\ wr[w].pc = "idle"
    /\ nEvents < MaxEvents
    /\ nEvents' = nEvents + 1
    /\ wr' = [wr EXCEPT ![w] = [pc |-> "rec", ev |-> nEvents + 1]]
    /\ UNCHANGED <<buffer, recorded, rd, nReads, lastResult>>
    /\ UNCHANGED exceptLog

\* record: the append under the lock, and the return.
RecordLocked(w) ==
    /\ wr[w].pc = "rec"
    /\ buffer' = LockedAppend(w)
    /\ recorded' = Append(recorded, wr[w].ev)
    /\ wr' = [wr EXCEPT ![w] = WriterIdle]
    /\ UNCHANGED <<nEvents, rd, nReads, lastResult>>
    /\ UNCHANGED exceptLog

\* A thread calls get_recent(limit).
GetRecentCall(r, limit) ==
    /\ rd[r].pc = "idle"
    /\ nReads < MaxReads
    /\ nReads' = nReads + 1
    /\ rd' = [rd EXCEPT ![r] = [ReaderIdle EXCEPT !.pc = "called", !.limit = limit]]
    /\ UNCHANGED <<buffer, nEvents, recorded, wr, lastResult>>
    /\ UNCHANGED exceptLog

\* get_recent: `items = list(self._buffer)` under the lock. (at, a history
\* field, is the number of appends made before the copy.)
GetRecentLocked(r) ==
    /\ rd[r].pc = "called"
    /\ rd' = [rd EXCEPT ![r].pc = "copied", ![r].items = buffer, ![r].at = Len(recorded)]
    /\ UNCHANGED <<buffer, nEvents, recorded, wr, nReads, lastResult>>
    /\ UNCHANGED exceptLog

\* get_recent: `return list(reversed(items))[:limit]`, outside the lock.
GetRecentReturn(r) ==
    /\ rd[r].pc = "copied"
    /\ lastResult' = Prefix(Reversed(rd[r].items), rd[r].limit)
    /\ rd' = [rd EXCEPT ![r].pc = "idle"]
    /\ UNCHANGED <<buffer, nEvents, recorded, wr, nReads>>
    /\ UNCHANGED exceptLog


(***************************************************************************)
(* _VaultEventHandler: paths are sequences of characters                   *)
(***************************************************************************)
\* the vault root the handler is constructed with
VaultPath == <<"/", "v">>

\* WATCH_EXTENSIONS
WatchExtensions == {<<".", "m", "d">>}

\* the absolute paths the notifications of the model carry
AbsPaths == {<<"/", "v", "/", "a", ".", "m", "d">>,
             <<"/", "v", "/", "b", ".", "m", "d">>,
             <<"/", "v", "/", "d", "/", "a", ".", "m", "d">>,
             <<"/", "v", "/", "a", ".", "t", "x", "t">>,
             <<"/", "v", "/", "a", ".", "M", "D">>,
             <<"/", "v", "/", "m", "d">>}

\* str.endswith
EndsWith(path, ext) ==
    /\ Len(path) >= Len(ext)
    /\ SubSeq(path, Len(path) - Len(ext) + 1, Len(path)) = ext

\* Mutant of IsWatched: every name is taken to be watched.
IsWatchedAnyName(path) == TRUE

\* _VaultEventHandler._is_watched
IsWatched(path) == \E ext \in WatchExtensions : EndsWith(path, ext)

\* _VaultEventHandler._rel_path: os.path.relpath of a path below the vault
RelPath(abs) == SubSeq(abs, Len(VaultPath) + 2, Len(abs))

\* a notification of watchdog, and a call of one of the three callbacks
Notification(kind, dir, src, dest) ==
    [kind |-> kind, isDir |-> dir, src |-> src, dest |-> dest]
Call(cb, args) == [cb |-> cb, args |-> args]

InitWatch ==
    /\ event = Notification("none", FALSE, <<>>, <<>>)
    /\ invoked = <<>>

\* on_created and on_modified
OnChanged(kind, dir, src) ==
    /\ event' = Notification(kind, dir, src, <<>>)
    /\ invoked' = IF dir \/ ~IsWatched(src)
                  THEN <<>>
                  ELSE <<Call("on_changed", <<RelPath(src)>>)>>
    /\ UNCHANGED exceptWatch

\* on_deleted
OnDeleted(dir, src) ==
    /\ event' = Notification("deleted", dir, src, <<>>)
    /\ invoked' = IF dir \/ ~IsWatched(src)
                  THEN <<>>
                  ELSE <<Call("on_deleted", <<RelPath(src)>>)>>
    /\ UNCHANGED exceptWatch

\* on_moved
OnMoved(dir, src, dest) ==
    /\ event' = Notification("moved", dir, src, dest)
    /\ invoked' =
         IF dir THEN <<>>
         ELSE IF IsWatched(src) /\ IsWatched(dest)
              THEN <<Call("on_moved", <<RelPath(src), RelPath(dest)>>)>>
         ELSE IF IsWatched(src) /\ ~IsWatched(dest)
              THEN <<Call("on_deleted", <<RelPath(src)>>)>>
         ELSE IF ~IsWatched(src) /\ IsWatched(dest)
              THEN <<Call("on_changed", <<RelPath(dest)>>)>>
         ELSE <<>>
    /\ UNCHANGED exceptWatch

NextWatch ==
    \/ \E kind \in {"created", "modified"}, dir \in BOOLEAN, src \in AbsPaths :
          OnChanged(kind, dir, src)
    \/ \E dir \in BOOLEAN, src \in AbsPaths : OnDeleted(dir, src)
    \/ \E dir \in BOOLEAN, src \in AbsPaths, dest \in AbsPaths : OnMoved(dir, src, dest)


(***************************************************************************)
(* VaultFileMap: paths and keys are sequences of characters                *)
(***************************************************************************)
\* the relative paths of the model; the second list is the order in which
\* os.walk visits them when the directory lists A.md before a.md, top
\* directory first in both
WalkOrders == {<< <<"a", ".", "m", "d">>, <<"A", ".", "m", "d">>,
                  <<"b", ".", "m", "d">>, <<"n", ".", "t", "x", "t">>,
                  <<"s", "/", "a", ".", "m", "d">> >>,
               << <<"n", ".", "t", "x", "t">>, <<"b", ".", "m", "d">>,
                  <<"A", ".", "m", "d">>, <<"a", ".", "m", "d">>,
                  <<"s", "/", "a", ".", "m", "d">> >>}
RelPaths == UNION {{w[i] : i \in 1..Len(w)} : w \in WalkOrders}

\* update_file(None, new_path)
NoOldPath == <<>>

\* the last position of character c in s, 0 when it has none
LastIndex(s, c) ==
    IF \E i \in 1..Len(s) : s[i] = c
    THEN CHOOSE i \in 1..Len(s) : s[i] = c /\ \A j \in (i + 1)..Len(s) : s[j] # c
    ELSE 0

\* os.path.basename
Basename(path) == SubSeq(path, LastIndex(path, "/") + 1, Len(path))

\* os.path.splitext(filename)[0]: the extension starts at the last dot that
\* follows a character other than a dot
SplitExtRoot(filename) ==
    LET i == LastIndex(filename, ".")
    IN  IF i > 1 /\ \E j \in 1..(i - 1) : filename[j] # "."
        THEN SubSeq(filename, 1, i - 1)
        ELSE filename

\* str.lower
Lower(s) ==
    [i \in 1..Len(s) |->
        CASE s[i] = "A" -> "a"
          [] s[i] = "M" -> "m"
          [] s[i] = "D" -> "d"
          [] OTHER -> s[i]]

\* os.path.splitext(os.path.basename(path))[0].lower()
StemOf(path) == Lower(SplitExtRoot(Basename(path)))

\* Mutant of Put: the item of the key is added and the old one is kept.
PutKeepsOld(m, k, v) == m \cup {<<k, v>>}

\* self._map[k] = v
Put(m, k, v) == {e \in m : e[1] # k} \cup {<<k, v>>}

\* self._map.pop(k, None)
Pop(m, k) == {e \in m : e[1] # k}

\* Mutant of Cleared: scan does not empty the table first.
ClearedNot(m) == m

\* self._map.clear()
Cleared(m) == {}

\* scan: the loop over os.walk from the i-th file of the listing on
RECURSIVE ScanFrom(_, _, _)
ScanFrom(m, w, i) ==
    IF i > Len(w) THEN m
    ELSE ScanFrom(IF w[i] \in disk /\ IsWatched(Basename(w[i]))
                  THEN Put(m, StemOf(w[i]), w[i])
                  ELSE m,
                  w, i + 1)

InitMap ==
    /\ disk = {}
    /\ walk = <<>>
    /\ table = {}
    /\ scanned = FALSE
    /\ replaced = <<>>
    /\ dropped = <<>>
    /\ scanPos = 0
    /\ before = {}

\* A file appears below the vault root.
CreateFile(path) ==
    /\ path \notin disk
    /\ disk' = disk \cup {path}
    /\ scanned' = FALSE
    /\ dropped' = <<>>
    /\ UNCHANGED <<walk, table, replaced, scanPos, before>>
    /\ UNCHANGED exceptMap

\* A file disappears.
DeleteFile(path) ==
    /\ path \in disk
    /\ disk' = disk \ {path}
    /\ scanned' = FALSE
    /\ dropped' = <<>>
    /\ UNCHANGED <<walk, table, replaced, scanPos, before>>
    /\ UNCHANGED exceptMap

\* VaultFileMap.scan(): the first scan shows the order of the listing, the
\* later ones find the same order
Scan ==
    /\ \E w \in IF walk = <<>> THEN WalkOrders ELSE {walk} :
          /\ walk' = w
          /\ table' = ScanFrom(Cleared(table), w, 1)
    /\ scanned' = TRUE
    /\ replaced' = <<>>
    /\ dropped' = <<>>
    /\ UNCHANGED <<disk, scanPos, before>>
    /\ UNCHANGED exceptMap

\* the part of a link text before its first "#"
BeforeHash(s) ==
    IF \E i \in 1..Len(s) : s[i] = "#"
    THEN SubSeq(s, 1, (CHOOSE i \in 1..Len(s) :
                          s[i] = "#" /\ \A j \in 1..(i - 1) : s[j] # "#") - 1)
    ELSE s

\* VaultFileMap.resolve(link_text), <<>> for None; no text of the model
\* starts or ends with white space
TableResolve(m, link_text) ==
    LET key == Lower(BeforeHash(link_text))
    IN  IF \E e \in m : e[1] = key THEN (CHOOSE e \in m : e[1] = key)[2] ELSE <<>>

\* VaultFileMap.has_file(path)
TableHas(m, path) == \E e \in m : e[1] = StemOf(path)

\* VaultFileMap.update_file(old_path, new_path)
Update(old, new) ==
    /\ LET popped == IF old # NoOldPath THEN Pop(table, StemOf(old)) ELSE table
       IN  /\ table' = Put(popped, StemOf(new), new)
           /\ replaced' = IF \E e \in popped : e[1] = StemOf(new) /\ e[2] # new
                          THEN (CHOOSE e \in popped : e[1] = StemOf(new))[2]
                          ELSE <<>>
    /\ dropped' = <<>>
    /\ scanned' = FALSE
    /\ UNCHANGED <<disk, walk, scanPos, before>>
    /\ UNCHANGED exceptMap

\* Mutant of Remove: the entry goes only when it maps to the path given.
RemoveOwnEntry(path) ==
    /\ table' = table \ {<<StemOf(path), path>>}
    /\ scanned' = FALSE
    /\ replaced' = <<>>
    /\ dropped' = IF <<StemOf(path), path>> \in table THEN <<path, path>> ELSE <<>>
    /\ UNCHANGED <<disk, walk, scanPos, before>>
    /\ UNCHANGED exceptMap

\* VaultFileMap.remove_file(path)
Remove(path) ==
    /\ table' = Pop(table, StemOf(path))
    /\ scanned' = FALSE
    /\ replaced' = <<>>
    /\ dropped' = IF \E e \in table : e[1] = StemOf(path)
                  THEN <<path, (CHOOSE e \in table : e[1] = StemOf(path))[2]>>
                  ELSE <<>>
    /\ UNCHANGED <<disk, walk, scanPos, before>>
    /\ UNCHANGED exceptMap

\* scan: the body of the loop for one file of the listing
ScanFile(m, path) ==
    IF path \in disk /\ IsWatched(Basename(path)) THEN Put(m, StemOf(path), path) ELSE m

\* VaultFileMap.scan(), first statement: `self._map.clear()`; the table is
\* not locked and the readers of other threads see it at once
ScanClear ==
    /\ scanPos = 0
    /\ \E w \in IF walk = <<>> THEN WalkOrders ELSE {walk} : walk' = w
    /\ before' = table
    /\ table' = Cleared(table)
    /\ scanPos' = 1
    /\ scanned' = FALSE
    /\ replaced' = <<>>
    /\ dropped' = <<>>
    /\ UNCHANGED disk
    /\ UNCHANGED exceptMap

\* VaultFileMap.scan(), one turn of the loop over os.walk; the last turn ends
\* the scan
ScanVisit ==
    /\ scanPos # 0
    /\ table' = ScanFile(table, walk[scanPos])
    /\ scanPos' = IF scanPos = Len(walk) THEN 0 ELSE scanPos + 1
    /\ scanned' = (scanPos = Len(walk))
    /\ UNCHANGED <<disk, walk, replaced, dropped, before>>
    /\ UNCHANGED exceptMap

\* the vault changes between the scans, which run statement by statement
NextScan ==
    \/ \E path \in RelPaths : scanPos = 0 /\ CreateFile(path)
    \/ \E path \in RelPaths : scanPos = 0 /\ DeleteFile(path)
    \/ ScanClear
    \/ ScanVisit

NextMap ==
    \/ \E path \in RelPaths : CreateFile(path)
    \/ \E path \in RelPaths : DeleteFile(path)
    \/ Scan
    \/ \E old \in RelPaths \cup {NoOldPath}, new \in RelPaths : Update(old, new)
    \/ \E path \in RelPaths : Remove(path)


(***************************************************************************)
(* QdrantAdapter: the link collection, point by point                      *)
(***************************************************************************)
\* the notes of this component and the link texts a note body can hold;
\* _WIKILINK_RE takes every text without a closing bracket
LinkSources == {"w.md", "x.md", "x.md::y.md"}
LinkTexts == {"w", "z", "y.md::z"}

\* bulk_upsert_links: link_key = f"{link.source_path}::{link.link_text}"
LinkKey(source_path, link_text) == source_path \o "::" \o link_text

\* _deterministic_id: uuid5 of the key, equal for equal keys and taken to
\* differ for keys that differ
DeterministicId(key) == key

\* the point bulk_upsert_links builds for one link
LinkPoint(source_path, link_text) ==
    [id |-> DeterministicId(LinkKey(source_path, link_text)),
     source_path |-> source_path,
     link_text |-> link_text]

InitLinks == linkStore = {}

InitLock == lock = NoTimer

\* QdrantAdapter.delete_links_by_source(source_path)
DeleteLinksBySource(store, source_path) ==
    {pt \in store : pt.source_path # source_path}

\* QdrantAdapter.bulk_upsert_links(links), links the wikilinks of one note:
\* a point takes the place of the stored point that has its id
BulkUpsertLinks(store, source_path, texts) ==
    LET points == {LinkPoint(source_path, x) : x \in texts}
    IN  {pt \in store : \A n \in points : n.id # pt.id} \cup points

\* index_single_note(note_path), the calls on the link collection
IndexSingleNoteLinks(note_path, texts) ==
    /\ linkStore' = BulkUpsertLinks(DeleteLinksBySource(linkStore, note_path),
                                    note_path, texts)
    /\ UNCHANGED exceptLk

\* delete_note(note_path), the call on the link collection
DeleteNoteLinks(note_path) ==
    /\ linkStore' = DeleteLinksBySource(linkStore, note_path)
    /\ UNCHANGED exceptLk

\* rename_note(old_path, new_path), the calls on the link collection
RenameNoteLinks(old_path, new_path, texts) ==
    /\ old_path # new_path
    /\ linkStore' = BulkUpsertLinks(
                        DeleteLinksBySource(DeleteLinksBySource(linkStore, old_path),
                                            new_path),
                        new_path, texts)
    /\ UNCHANGED exceptLk

NextLinks ==
    \/ \E p \in LinkSources, texts \in SUBSET LinkTexts : IndexSingleNoteLinks(p, texts)
    \/ \E p \in LinkSources : DeleteNoteLinks(p)
    \/ \E p \in LinkSources, q \in LinkSources, texts \in SUBSET LinkTexts :
          RenameNoteLinks(p, q, texts)

(***************************************************************************)
(* SearchService: search and _enrich_with_related_notes                    *)
(***************************************************************************)
\* the notes with indexed chunks, and the notes a link can lead to or from
HitPaths == {"a.md", "b.md"}
LinkedPaths == HitPaths \cup {"c.md"}
Relationships == {"outgoing", "backlink"}

\* what hybrid_search can return: the note path of each SearchResultItem
ResultLists == UNION {[1..n -> HitPaths] : n \in 0..MaxHits}

\* The dict get_related_notes_batch(paths) returns, as the link dicts of its
\* lists in the order `relations.items()` and the lists are iterated; the
\* keys of the dict, which are among paths, are not read by the caller.
BatchAnswers(paths) ==
    IF paths = {} THEN {<<>>}
    ELSE UNION {[1..n -> [related_path : LinkedPaths, relationship : Relationships]] :
                    n \in 0..MaxLinks}

InitSearch ==
    /\ searched = <<>>
    /\ batchCalls = <<>>
    /\ related = <<>>

\* Mutant of Enriches: the batch is fetched for every search.
EnrichesAlways(include, results) == TRUE

\* search: `if request.include_related and results:`
Enriches(include, results) == include /\ results # <<>>

\* `result_paths = {r.note_path for r in results}`
ResultPaths(results) == {results[i] : i \in 1..Len(results)}

\* `counter[(related_path, relationship)] += 1` on a Counter kept as the
\* sequence of its [key, count] items in insertion order
CounterAdd(c, k) ==
    IF \E i \in 1..Len(c) : c[i].key = k
    THEN [i \in 1..Len(c) |-> IF c[i].key = k
                              THEN [c[i] EXCEPT !.count = @ + 1] ELSE c[i]]
    ELSE Append(c, [key |-> k, count |-> 1])

\* the two loops of _enrich_with_related_notes over the links L of the answer
RECURSIVE CountLinks(_, _)
CountLinks(L, paths) ==
    IF L = <<>> THEN <<>>
    ELSE LET c == CountLinks(SubSeq(L, 1, Len(L) - 1), paths)
             l == L[Len(L)]
         IN  IF l.related_path \notin paths
             THEN CounterAdd(c, <<l.related_path, l.relationship>>)
             ELSE c

\* Mutant of MostCommon: the items in insertion order.
MostCommonInserted(c) == c

\* Counter.most_common(): the items by decreasing count, items of equal
\* count in insertion order
RECURSIVE MostCommon(_)
MostCommon(c) ==
    IF c = <<>> THEN <<>>
    ELSE LET m == CHOOSE i \in 1..Len(c) :
                      /\ \A j \in 1..Len(c) : c[j].count <= c[i].count
                      /\ \A j \in 1..(i - 1) : c[j].count < c[i].count
         IN  <<c[m]>> \o MostCommon(SubSeq(c, 1, m - 1) \o SubSeq(c, m + 1, Len(c)))

\* _enrich_with_related_notes, after the batch call answered L
EnrichWithRelatedNotes(L, paths) ==
    LET c == MostCommon(CountLinks(L, paths))
    IN  [i \in 1..Len(c) |-> [note_path |-> c[i].key[1], relationship |-> c[i].key[2],
                              link_count |-> c[i].count]]

\* search(request) with hybrid_search returning results; answer, one of
\* BatchAnswers, is what get_related_notes_batch returns when it is called.
Search(results, include, answer) ==
    /\ searched = <<>>
    /\ IF Enriches(include, results)
       THEN /\ batchCalls' = Append(batchCalls, ResultPaths(results))
            /\ related' = EnrichWithRelatedNotes(answer, ResultPaths(results))
       ELSE /\ answer = <<>>
            /\ batchCalls' = batchCalls
            /\ related' = <<>>
    /\ searched' = <<[results |-> results, include_related |-> include,
                      relations |-> answer]>>
    /\ UNCHANGED <<dbVars, ixVars, logVars, watchVars, mapVars, svcVars, ckVars, lkVars, cbVars>>

\* one search in a run
NextSearch ==
    /\ searched = <<>>
    /\ \E results \in ResultLists, include \in BOOLEAN :
          \E answer \in BatchAnswers(ResultPaths(results)) : Search(results, include, answer)

(***************************************************************************)
(* Chunker: strings are sequences of characters                            *)
(***************************************************************************)
Whitespace == {" ", "\n"}

\* the lines note bodies are made of: three headings, a text line, a blank line
BodyLines == {<<"#", "#", " ", "A">>, <<"#", "#", "#", " ", "B">>,
              <<"#", "#", " ", "C">>, <<" ", "x">>, <<>>}

\* sep.join(parts)
RECURSIVE Join(_, _)
Join(parts, sep) ==
    IF parts = <<>> THEN <<>>
    ELSE IF Len(parts) = 1 THEN parts[1]
    ELSE parts[1] \o sep \o Join(Tail(parts), sep)

\* the note bodies: one to MaxLines lines joined by newlines
NoteBodies == {Join(ls, <<"\n">>) : ls \in UNION {[1..n -> BodyLines] : n \in 1..MaxLines}}

\* content.split("\n")
RECURSIVE SplitLines(_)
SplitLines(content) ==
    IF \A i \in 1..Len(content) : content[i] # "\n" THEN <<content>>
    ELSE LET n == CHOOSE i \in 1..Len(content) :
                      content[i] = "\n" /\ \A j \in 1..(i - 1) : content[j] # "\n"
         IN  <<SubSeq(content, 1, n - 1)>> \o SplitLines(SubSeq(content, n + 1, Len(content)))

\* Mutant of Strip: nothing is trimmed.
StripNothing(str) == str

\* str.strip()
Strip(str) ==
    LET Kept == {i \in 1..Len(str) : str[i] \notin Whitespace}
    IN  IF Kept = {} THEN <<>>
        ELSE SubSeq(str, CHOOSE i \in Kept : \A j \in Kept : i <= j,
                         CHOOSE i \in Kept : \A j \in Kept : j <= i)

\* text[start:end] for any integers start and end
Slice(text, start, end) ==
    LET Clamp(i) == IF i < 0 THEN (IF i + Len(text) < 0 THEN 0 ELSE i + Len(text))
                    ELSE IF i > Len(text) THEN Len(text) ELSE i
    IN  SubSeq(text, Clamp(start) + 1, Clamp(end))

\* _HEADING_RE: the number of '#' a line begins with, and whether the line
\* matches `^(#{1,6})\s+(.+)$`
Hashes(line) == Cardinality({i \in 1..Len(line) : \A j \in 1..i : line[j] = "#"})
IsHeading(line) ==
    /\ Hashes(line) \in 1..6
    /\ Len(line) >= Hashes(line) + 2
    /\ line[Hashes(line) + 1] \in Whitespace

\* `match.group(2).strip()`
HeadingText(line) == Strip(SubSeq(line, Hashes(line) + 2, Len(line)))

\* Mutant of SetHeading: the deeper levels are kept.
SetHeadingKeepsDeeper(tbl, level, text) ==
    [l \in DOMAIN tbl \cup {level} |-> IF l = level THEN text ELSE tbl[l]]

\* _split_by_headings: `heading_by_level[level] = heading_text` and the
\* deletion of the deeper levels
SetHeading(tbl, level, text) ==
    [l \in {d \in DOMAIN tbl \cup {level} : d <= level} |->
        IF l = level THEN text ELSE tbl[l]]

\* the keys of a dict of levels in sorted order
RECURSIVE SortedLevels(_)
SortedLevels(S) ==
    IF S = {} THEN <<>>
    ELSE LET m == CHOOSE l \in S : \A k \in S : l <= k
         IN  <<m>> \o SortedLevels(S \ {m})

\* _build_context: <<>> is None, <<c>> the string c
BuildContext(tbl) ==
    IF DOMAIN tbl = {} THEN <<>>
    ELSE LET lv == SortedLevels(DOMAIN tbl)
         IN  <<Join([i \in 1..Len(lv) |-> tbl[lv[i]]], <<" ", ">", " ">>)>>

\* _split_by_headings after the first n lines: heading_by_level, sections,
\* current_lines, and the history field at, the number of the line
\* current_lines begins with. Each section is [ctx, text, at].
RECURSIVE Scanned(_, _)
Scanned(lines, n) ==
    IF n = 0
    THEN [heading_by_level |-> <<>>, sections |-> <<>>, current_lines |-> <<>>, at |-> 0]
    ELSE LET prev == Scanned(lines, n - 1)
             line == lines[n]
             flushed == IF prev.current_lines # <<>>
                        THEN Append(prev.sections,
                                    [ctx |-> BuildContext(prev.heading_by_level),
                                     text |-> Join(prev.current_lines, <<"\n">>),
                                     at |-> prev.at])
                        ELSE prev.sections
         IN  IF IsHeading(line)
             THEN [heading_by_level |-> SetHeading(prev.heading_by_level, Hashes(line),
                                                   HeadingText(line)),
                   sections |-> flushed, current_lines |-> <<>>, at |-> 0]
             ELSE [prev EXCEPT !.current_lines = Append(@, line),
                               !.at = IF prev.current_lines = <<>> THEN n ELSE @]

\* _split_by_headings(content)
SplitByHeadings(content) ==
    LET lines == SplitLines(content)
        last == Scanned(lines, Len(lines))
    IN  IF last.current_lines # <<>>
        THEN Append(last.sections, [ctx |-> BuildContext(last.heading_by_level),
                                    text |-> Join(last.current_lines, <<"\n">>),
                                    at |-> last.at])
        ELSE last.sections

\* NoteChunk(...) appended to the chunks made; at is the history field of its section
NoteChunk(made, note_path, content, ctx, at) ==
    [chunk_id |-> note_path \o "#chunk" \o ToString(Len(made)), note_path |-> note_path,
     content |-> content, chunk_index |-> Len(made), heading_context |-> ctx, at |-> at]

NotCalled == [pc |-> "idle", chunk_size |-> 1, chunk_overlap |-> 0, note_path |-> "a.md",
              content |-> <<>>, sections |-> <<>>, chunks |-> <<>>, heading_context |-> <<>>,
              text |-> <<>>, start |-> 0, subs |-> <<>>, at |-> 0, iters |-> 0]

InitChunker == ck = NotCalled

\* Chunker(chunk_size, chunk_overlap).chunk("a.md", content) is called:
\* `sections = self._split_by_headings(content)`, `chunks = []`.
ChunkCall(size, overlap, content) ==
    /\ ck.pc = "idle"
    /\ ck' = [NotCalled EXCEPT !.pc = "sections", !.chunk_size = size,
                               !.chunk_overlap = overlap, !.content = content,
                               !.sections = SplitByHeadings(content)]
    /\ UNCHANGED <<dbVars, ixVars, logVars, watchVars, mapVars, svcVars, srVars, lkVars, cbVars>>

\* chunk: one iteration of the loop over the sections, up to the call of
\* _split_fixed_size.
ChunkSection ==
    /\ ck.pc = "sections"
    /\ ck.sections # <<>>
    /\ LET sec == Head(ck.sections)
           section_text == Strip(sec.text)
       IN  ck' = IF section_text = <<>>
                 THEN [ck EXCEPT !.sections = Tail(@)]
                 ELSE IF Len(section_text) <= ck.chunk_size
                 THEN [ck EXCEPT !.sections = Tail(@),
                                 !.chunks = Append(@, NoteChunk(ck.chunks, ck.note_path,
                                                                section_text, sec.ctx, sec.at))]
                 ELSE [ck EXCEPT !.sections = Tail(@), !.pc = "split",
                                 !.heading_context = sec.ctx, !.at = sec.at,
                                 !.text = section_text, !.start = 0, !.subs = <<>>,
                                 !.iters = 0]
    /\ UNCHANGED <<dbVars, ixVars, logVars, watchVars, mapVars, svcVars, srVars, lkVars, cbVars>>

\* the chunks of `for sub in sub_chunks:`
RECURSIVE WithSubs(_, _, _, _, _)
WithSubs(made, subs, note_path, ctx, at) ==
    IF subs = <<>> THEN made
    ELSE WithSubs(Append(made, NoteChunk(made, note_path, Head(subs), ctx, at)),
                  Tail(subs), note_path, ctx, at)

\* _split_fixed_size: the test of the while loop and one iteration, or the
\* return and the loop over sub_chunks. A loop over text that advances makes
\* no more than len(text) iterations; the model follows it one iteration
\* further and no more.
SplitStep ==
    /\ ck.pc = "split"
    /\ ck.iters <= Len(ck.text)
    /\ IF ck.start < Len(ck.text)
       THEN LET chunk == Slice(ck.text, ck.start, ck.start + ck.chunk_size)
            IN  ck' = [ck EXCEPT !.subs = IF Strip(chunk) # <<>>
                                          THEN Append(@, Strip(chunk)) ELSE @,
                                 !.start = @ + ck.chunk_size - ck.chunk_overlap,
                                 !.iters = @ + 1]
       ELSE ck' = [ck EXCEPT !.pc = "sections", !.text = <<>>, !.start = 0, !.subs = <<>>,
                             !.heading_context = <<>>, !.at = 0, !.iters = 0,
                             !.chunks = WithSubs(ck.chunks, ck.subs, ck.note_path,
                                                 ck.heading_context, ck.at)]
    /\ UNCHANGED <<dbVars, ixVars, logVars, watchVars, mapVars, svcVars, srVars, lkVars, cbVars>>

\* chunk: `return chunks`
ChunkReturn ==
    /\ ck.pc = "sections"
    /\ ck.sections = <<>>
    /\ ck' = [ck EXCEPT !.pc = "done"]
    /\ UNCHANGED <<dbVars, ixVars, logVars, watchVars, mapVars, svcVars, srVars, lkVars, cbVars>>

\* one call in a run
NextChunk ==
    \/ /\ ck.pc = "idle"
       /\ \E size \in 1..MaxSize, overlap \in 0..MaxSize, content \in NoteBodies :
             ChunkCall(size, overlap, content)
    \/ ChunkSection
    \/ SplitStep
    \/ ChunkReturn

(***************************************************************************)
(* IndexService                                                            *)
(***************************************************************************)
Threads == {"t1", "t2"}
\* relative paths of the notes of the vault, in sorted order
SortedPaths == <<"a.md", "b.md">>
Paths == {SortedPaths[i] : i \in 1..Len(SortedPaths)}
Stems == {"a", "b"}
NoPath == ""

\* os.path.splitext(os.path.basename(path))[0].lower()
Stem(p) == IF p = "a.md" THEN "a" ELSE "b"

\* A note body is given by what the chunker and the parser make of it: body b
\* is cut into the b chunks p#chunk0 .. p#chunk(b-1) and holds the b-1
\* wikilinks [[1]] .. [[b-1]]; body 0 is empty or whitespace.
Bodies == 0..MaxChunks
ChunkIdx == 0..(MaxChunks - 1)
WikiLinks(b) == 1..(b - 1)

\* the note the user edits, a.md: it starts with the longest body and is
\* rewritten or removed; b.md is a one-chunk note left as it is
Edited == {"a.md"}

NoFile == [exists |-> FALSE, body |-> 0]

\* Chunker.chunk(p, body): the points of p that an upsert of body b writes,
\* keyed by chunk index
ChunksOf(b) == [i \in ChunkIdx |-> IF i < b THEN b ELSE 0]

\* the tables VaultFileMap.scan() can build from the files on disk
ScanResults ==
    {m \in [Stems -> Paths \cup {NoPath}] :
        \A st \in Stems :
            IF \E p \in Paths : vault[p].exists /\ Stem(p) = st
            THEN m[st] \in Paths /\ vault[m[st]].exists /\ Stem(m[st]) = st
            ELSE m[st] = NoPath}

\* Mutant of CollectMdFiles: every path, on disk or not, is listed.
CollectMdFilesAll == SortedPaths

\* Mutant of CollectMdFiles: the list is returned in descending order.
CollectMdFilesDescending == SelectSeq(<<"b.md", "a.md">>, LAMBDA p : vault[p].exists)

\* _collect_md_files(): the files on disk, sorted by relative path
CollectMdFiles == SelectSeq(SortedPaths, LAMBDA p : vault[p].exists)

\* A thread outside any operation. (exc: an exception is on its way to the
\* caller of rebuild_index while the finally clause runs.)
Idle == [pc |-> "idle", op |-> "none", arg |-> "a.md", files |-> <<>>, todo |-> <<>>,
         cur |-> 0, notes |-> 0, made |-> 0, exc |-> FALSE, deleted |-> {}, solo |-> TRUE]

\* How an operation returns: "already_running" and "success" (rebuild_index
\* returned None, or its response), "single_done" (index_single_note
\* returned), "rebuild_raised" and "single_raised" (an exception reached the
\* caller); "none" before the first return and once a later call is made.
Returns == {"none", "already_running", "success", "single_done",
            "rebuild_raised", "single_raised", "delete_done", "initialized"}

\* Thread t returns to its caller with outcome r.
Return(t, r) ==
    /\ th' = [th EXCEPT ![t] = Idle]
    /\ lastReturn' = r

InitIndex ==
    /\ rebuilding = FALSE
    /\ lastIndexed = 0
    /\ fileMap = [st \in Stems |-> NoPath]
    /\ vault = [p \in Paths |-> [exists |-> TRUE, body |-> IF p \in Edited THEN MaxChunks ELSE 1]]
    /\ nOps = 0
    /\ nWrites = 0
    /\ chunks = [p \in Paths |-> ChunksOf(0)]
    /\ links = [p \in Paths |-> {}]
    /\ th = [t \in Threads |-> Idle]
    /\ lastReturn = "none"
    /\ lastRead = [p \in Paths |-> 0]
    /\ raisedEver = FALSE

Init ==
    /\ InitDeb /\ InitIndex /\ InitLog /\ InitWatch /\ InitMap /\ InitSvc /\ InitSearch
    /\ InitChunker /\ InitLinks /\ InitLock

\* the statements of rebuild_index from `self._rebuilding = True` to the end
\* of the finally clause
RebuildBody == {"rb_scan", "rb_next", "del_chunks", "del_links", "read",
                "up_chunks", "up_links", "rb_finally"}
InRebuild(t) == th[t].op = "rebuild" /\ th[t].pc \in RebuildBody

\* Thread t takes a step that leaves it as record r; the other threads stay
\* as they are.
Step(t, r) ==
    /\ th' = [th EXCEPT ![t] = r]
    /\ UNCHANGED lastReturn

\* Thread t starts operation o on path p at statement first: history field
\* solo is set when no other operation is running, and cleared in the others;
\* lastReturn is forgotten.
Begin(t, o, p, first) ==
    /\ lastReturn' = "none"
    /\ th' = [u \in Threads |->
                IF u = t
                THEN [Idle EXCEPT !.pc = first, !.op = o, !.arg = p,
                                  !.solo = \A v \in Threads \ {t} : th[v].pc = "idle"]
                ELSE IF th[u].pc = "idle" THEN th[u] ELSE [th[u] EXCEPT !.solo = FALSE]]

\* The worker thread that takes the next call: the threads are
\* interchangeable, so the call goes to t1 whenever t1 is free.
FreeThread(t) == th[t].pc = "idle" /\ (t = "t2" => th["t1"].pc # "idle")

\* A file of the vault is written or created by the user.
WriteFile(p, b) ==
    /\ nWrites < MaxWrites
    /\ vault[p] # [exists |-> TRUE, body |-> b]
    /\ vault' = [vault EXCEPT ![p] = [exists |-> TRUE, body |-> b]]
    /\ nWrites' = nWrites + 1
    /\ UNCHANGED <<rebuilding, lastIndexed, fileMap, chunks, links, th, lastReturn, nOps,
                   lastRead, raisedEver>>
    /\ UNCHANGED exceptIx

\* A file of the vault is removed by the user.
RemoveFile(p) ==
    /\ nWrites < MaxWrites
    /\ vault[p].exists
    /\ vault' = [vault EXCEPT ![p] = NoFile]
    /\ nWrites' = nWrites + 1
    /\ UNCHANGED <<rebuilding, lastIndexed, fileMap, chunks, links, th, lastReturn, nOps,
                   lastRead, raisedEver>>
    /\ UNCHANGED exceptIx

\* A thread calls rebuild_index().
RebuildCall(t) ==
    /\ FreeThread(t)
    /\ nOps < MaxOps
    /\ nOps' = nOps + 1
    /\ Begin(t, "rebuild", "a.md", "rb_test")
    /\ UNCHANGED <<rebuilding, lastIndexed, fileMap, vault, chunks, links, nWrites,
                   lastRead, raisedEver>>
    /\ UNCHANGED exceptIx

\* Mutant of AfterTest: the flag is not tested.
AfterTestAlwaysEnters(flag) == "rb_set"

\* `if self._rebuilding: return None`: where the test of the flag leads
AfterTest(flag) == IF flag THEN "idle" ELSE "rb_set"

\* rebuild_index: the test of the flag.
RebuildTest(t) ==
    /\ th[t].pc = "rb_test"
    /\ IF AfterTest(rebuilding) = "idle"
       THEN Return(t, "already_running")
       ELSE Step(t, [th[t] EXCEPT !.pc = AfterTest(rebuilding)])
    /\ UNCHANGED <<rebuilding, lastIndexed, fileMap, vault, chunks, links, nOps, nWrites,
                   lastRead, raisedEver>>
    /\ UNCHANGED exceptIx

\* rebuild_index: `self._rebuilding = True`.
RebuildSet(t) ==
    /\ th[t].pc = "rb_set"
    /\ rebuilding' = TRUE
    /\ Step(t, [th[t] EXCEPT !.pc = "rb_scan"])
    /\ UNCHANGED <<lastIndexed, fileMap, vault, chunks, links, nOps, nWrites,
                   lastRead, raisedEver>>
    /\ UNCHANGED exceptIx

\* Mutant of RaisedPc: every operation that raises runs the finally clause of
\* rebuild_index.
RaisedPcAlwaysFinally(o) == "rb_finally"

\* Mutant of RaisedPc: rebuild_index catches what a file raises and goes on
\* with the loop.
RaisedPcContinues(o) == IF o = "rebuild" THEN "rb_next" ELSE "idle"

\* Mutant of RaisedPc: the flag is reset on the normal path only, no finally.
RaisedPcNoFinally(o) == "idle"

\* where control goes when a call made by operation o raises: rebuild_index
\* runs its finally clause, index_single_note lets the exception reach its caller
RaisedPc(o) == IF o = "rebuild" THEN "rb_finally" ELSE "idle"

\* A collaborator call of thread t raises: the locals of the try block are
\* not used again.
Raise(t) ==
    /\ IF RaisedPc(th[t].op) = "idle"
       THEN Return(t, IF th[t].op = "rebuild" THEN "rebuild_raised" ELSE "single_raised")
       ELSE Step(t, [th[t] EXCEPT !.pc = RaisedPc(th[t].op), !.exc = TRUE,
                                  !.files = <<>>, !.todo = <<>>, !.cur = 0,
                                  !.notes = 0, !.made = 0])
    /\ raisedEver' = TRUE

\* rebuild_index: file_map.scan(), ensure_collections(), _collect_md_files().
RebuildScan(t) ==
    /\ th[t].pc = "rb_scan"
    /\ \/ /\ fileMap' \in ScanResults
          /\ Step(t, [th[t] EXCEPT !.pc = "rb_next", !.files = CollectMdFiles,
                                   !.todo = CollectMdFiles])
          /\ UNCHANGED raisedEver
       \/ /\ Raise(t)
          /\ \/ fileMap' \in ScanResults
             \/ fileMap' = fileMap
    /\ UNCHANGED <<rebuilding, lastIndexed, vault, chunks, links, nOps, nWrites, lastRead>>
    /\ UNCHANGED exceptIx

\* Mutant of FirstFileStep: the deletes are left out.
FirstFileStepNoDelete == "read"

\* the first statement of the (re)indexing of one file, in a rebuild
\* iteration and in index_single_note: the deletes come before _index_file
FirstFileStep == "del_chunks"

\* _index_file returns n in thread t: the counters of the rebuild loop are
\* advanced and its next iteration begins, or index_single_note returns to
\* its caller.
FileDone(t, n) ==
    IF th[t].op = "rebuild"
    THEN Step(t, [th[t] EXCEPT !.pc = "rb_next", !.cur = 0, !.notes = @ + 1,
                               !.made = @ + n])
    ELSE Return(t, "single_done")

\* rebuild_index: the head of the loop over md_files; after the last file
\* _last_indexed is set and the response returned.
RebuildNext(t) ==
    /\ th[t].pc = "rb_next"
    /\ IF th[t].todo = <<>>
       THEN /\ lastIndexed' = lastIndexed + 1
            /\ Step(t, [th[t] EXCEPT !.pc = "rb_finally"])
       ELSE /\ Step(t, [th[t] EXCEPT !.pc = FirstFileStep, !.arg = Head(th[t].todo),
                                     !.todo = Tail(th[t].todo)])
            /\ UNCHANGED lastIndexed
    /\ UNCHANGED <<rebuilding, fileMap, vault, chunks, links, nOps, nWrites,
                   lastRead, raisedEver>>
    /\ UNCHANGED exceptIx

\* rebuild_index: the finally clause, `self._rebuilding = False`, and the return.
RebuildFinally(t) ==
    /\ th[t].pc = "rb_finally"
    /\ rebuilding' = FALSE
    /\ Return(t, IF th[t].exc THEN "rebuild_raised" ELSE "success")
    /\ UNCHANGED <<lastIndexed, fileMap, vault, chunks, links, nOps, nWrites,
                   lastRead, raisedEver>>
    /\ UNCHANGED exceptIx

\* A thread calls index_single_note(p): a missing file is skipped.
SingleCall(t, p) ==
    /\ FreeThread(t)
    /\ nOps < MaxOps
    /\ nOps' = nOps + 1
    /\ IF vault[p].exists
       THEN Begin(t, "single", p, FirstFileStep)
       ELSE Return(t, "single_done")
    /\ UNCHANGED <<rebuilding, lastIndexed, fileMap, vault, chunks, links, nWrites,
                   lastRead, raisedEver>>
    /\ UNCHANGED exceptIx

\* qdrant.delete_by_note_path(rel_path): every point whose note_path is the
\* path is removed.
DeleteChunks(t) ==
    /\ th[t].pc = "del_chunks"
    /\ \/ /\ chunks' = [chunks EXCEPT ![th[t].arg] = ChunksOf(0)]
          /\ Step(t, [th[t] EXCEPT !.pc = "del_links",
                                   !.deleted = @ \cup {<<"chunks", th[t].arg>>}])
          /\ UNCHANGED raisedEver
       \/ /\ Raise(t)
          /\ UNCHANGED chunks
    /\ UNCHANGED <<rebuilding, lastIndexed, fileMap, vault, links, nOps, nWrites, lastRead>>
    /\ UNCHANGED exceptIx

\* qdrant.delete_links_by_source(rel_path)
DeleteLinks(t) ==
    /\ th[t].pc = "del_links"
    /\ \/ /\ links' = [links EXCEPT ![th[t].arg] = {}]
          /\ Step(t, [th[t] EXCEPT !.pc = "read",
                                   !.deleted = @ \cup {<<"links", th[t].arg>>}])
          /\ UNCHANGED raisedEver
       \/ /\ Raise(t)
          /\ UNCHANGED links
    /\ UNCHANGED <<rebuilding, lastIndexed, fileMap, vault, chunks, nOps, nWrites, lastRead>>
    /\ UNCHANGED exceptIx

\* Mutant of ReadFailed: a file that cannot be read is not counted.
ReadFailedNotCounted(t) ==
    /\ IF th[t].op = "rebuild"
       THEN Step(t, [th[t] EXCEPT !.pc = "rb_next", !.cur = 0])
       ELSE Return(t, "single_done")
    /\ UNCHANGED raisedEver

\* Mutant of ReadFailed: the OSError of open() is not caught.
ReadFailedRaises(t) == Raise(t)

\* _read_file catches the OSError and returns None, and _index_file returns 0
ReadFailed(t) ==
    /\ FileDone(t, 0)
    /\ UNCHANGED raisedEver

\* _index_file up to the embedding: _read_file gives None for a file that
\* cannot be read and _index_file returns 0; otherwise the content is parsed
\* and chunked, a body without chunks returns 0, and the chunk texts are
\* embedded. os.stat and the embedder may raise.
ReadFile(t) ==
    /\ th[t].pc = "read"
    /\ \/ /\ ~vault[th[t].arg].exists
          /\ lastRead' = [lastRead EXCEPT ![th[t].arg] = 0]
          /\ ReadFailed(t)
       \/ /\ vault[th[t].arg].exists
          /\ lastRead' = [lastRead EXCEPT ![th[t].arg] = vault[th[t].arg].body]
          /\ IF vault[th[t].arg].body = 0
             THEN FileDone(t, 0)
             ELSE Step(t, [th[t] EXCEPT !.pc = "up_chunks", !.cur = vault[th[t].arg].body])
          /\ UNCHANGED raisedEver
       \/ /\ vault[th[t].arg].exists
          /\ Raise(t)
          /\ UNCHANGED lastRead
    /\ UNCHANGED <<rebuilding, lastIndexed, fileMap, vault, chunks, links, nOps, nWrites>>
    /\ UNCHANGED exceptIx

\* qdrant.bulk_upsert_chunks(chunks): the point of each chunk id is written,
\* the other points are left alone.
UpsertChunks(t) ==
    /\ th[t].pc = "up_chunks"
    /\ \/ /\ chunks' = [chunks EXCEPT ![th[t].arg] =
                           [i \in ChunkIdx |-> IF i < th[t].cur THEN th[t].cur ELSE @[i]]]
          /\ Step(t, [th[t] EXCEPT !.pc = "up_links"])
          /\ UNCHANGED raisedEver
       \/ /\ Raise(t)
          /\ UNCHANGED chunks
    /\ UNCHANGED <<rebuilding, lastIndexed, fileMap, vault, links, nOps, nWrites, lastRead>>
    /\ UNCHANGED exceptIx

\* qdrant.bulk_upsert_links(links), then _index_file returns len(chunks).
UpsertLinks(t) ==
    /\ th[t].pc = "up_links"
    /\ \/ /\ links' = [links EXCEPT ![th[t].arg] = @ \cup WikiLinks(th[t].cur)]
          /\ FileDone(t, th[t].cur)
          /\ UNCHANGED raisedEver
       \/ /\ Raise(t)
          /\ UNCHANGED links
    /\ UNCHANGED <<rebuilding, lastIndexed, fileMap, vault, chunks, nOps, nWrites, lastRead>>
    /\ UNCHANGED exceptIx

NextIndex ==
    \/ \E p \in Edited, b \in Bodies : WriteFile(p, b)
    \/ \E p \in Edited : RemoveFile(p)
    \/ \E t \in Threads : RebuildCall(t)
    \/ \E t \in Threads : RebuildTest(t)
    \/ \E t \in Threads : RebuildSet(t)
    \/ \E t \in Threads : RebuildScan(t)
    \/ \E t \in Threads : RebuildNext(t)
    \/ \E t \in Threads : RebuildFinally(t)
    \/ \E t \in Threads, p \in Paths : SingleCall(t, p)
    \/ \E t \in Threads : DeleteChunks(t)
    \/ \E t \in Threads : DeleteLinks(t)
    \/ \E t \in Threads : ReadFile(t)
    \/ \E t \in Threads : UpsertChunks(t)
    \/ \E t \in Threads : UpsertLinks(t)

SpecIndex == Init /\ [][NextIndex]_vars

(***************************************************************************)
(* IndexService: the watcher handlers, delete_note and rename_note, run    *)
(* one at a time by the thread that delivers the notifications.            *)
(***************************************************************************)
Callers == {"t1"}

\* VaultFileMap.has_file(path)
HasFile(p) == fileMap[Stem(p)] # NoPath

\* VaultFileMap.resolve(link_text) for a link text that is a stem
Resolve(st) == fileMap[st]

\* Mutant of UpdateFile: the entry of the old path is left in the table.
UpdateFileKeepsOld(m, old, new) == [m EXCEPT ![Stem(new)] = new]

\* VaultFileMap.update_file(old_path, new_path) on table m; old is NoPath
\* when old_path is None
UpdateFile(m, old, new) ==
    [st \in Stems |->
        IF st = Stem(new) THEN new
        ELSE IF old # NoPath /\ st = Stem(old) THEN NoPath
        ELSE m[st]]

\* Mutant of RemoveFileEntry: the table is left as it is.
RemoveFileEntryNot(m, p) == m

\* VaultFileMap.remove_file(path) on table m
RemoveFileEntry(m, p) == [m EXCEPT ![Stem(p)] = NoPath]

\* Mutant of EventType: every change is reported as "modified".
EventTypeAlwaysModified(known) == "modified"

\* _on_file_changed: `"created" if not has_file(note_path) else "modified"`
EventType(known) == IF known THEN "modified" ELSE "created"

\* Mutant of FileFound: index_single_note without the os.path.exists test.
FileFoundAlways(p) == TRUE

\* index_single_note: os.path.exists(abs_path)
FileFound(p) == vault[p].exists

\* the WatcherEvent a handler records: _on_file_changed, _on_file_deleted
\* and _on_file_moved (whose destination is kept in todo)
HandlerEvent(t) ==
    CASE th[t].op = "changed" ->
             [type |-> EventType(HasFile(th[t].arg)), path |-> th[t].arg, dest |-> NoPath]
      [] th[t].op = "deleted" ->
             [type |-> "deleted", path |-> th[t].arg, dest |-> NoPath]
      [] OTHER ->
             [type |-> "moved", path |-> th[t].arg, dest |-> th[t].todo[1]]

\* the statement that follows the record of the event in each handler
AfterRecord(o) == IF o = "changed" THEN "fc_update" ELSE "nd_chunks"

\* the statement that follows the two deletes in delete_note and rename_note
AfterNoteDeletes(o) == IF o \in {"deleted", "delete"} THEN "dn_remove" ELSE "rn_update"

\* the variables of the EventLog a handler leaves alone
logRest == <<wr, rd, nReads, lastResult>>

\* IndexService.initialize(): file_map.scan() and ensure_collections().
Initialize(t) ==
    /\ th[t].pc = "idle"
    /\ nOps < MaxOps
    /\ nOps' = nOps + 1
    /\ fileMap' \in ScanResults
    /\ Return(t, "initialized")
    /\ UNCHANGED <<rebuilding, lastIndexed, vault, chunks, links, nWrites, lastRead, raisedEver>>
    /\ UNCHANGED exceptIx

\* The debouncer calls _on_file_changed(p), or the watcher calls
\* _on_file_deleted(p).
HandlerCall(t, o, p) ==
    /\ th[t].pc = "idle"
    /\ nOps < MaxOps
    /\ nOps' = nOps + 1
    /\ Begin(t, o, p, "record")
    /\ UNCHANGED <<rebuilding, lastIndexed, fileMap, vault, chunks, links, nWrites,
                   lastRead, raisedEver>>
    /\ UNCHANGED exceptIx

\* The watcher calls _on_file_moved(old, new).
MovedCall(t, old, new) ==
    /\ th[t].pc = "idle"
    /\ nOps < MaxOps
    /\ nOps' = nOps + 1
    /\ lastReturn' = "none"
    /\ th' = [th EXCEPT ![t] = [Idle EXCEPT !.pc = "record", !.op = "moved",
                                            !.arg = old, !.todo = <<new>>]]
    /\ UNCHANGED <<rebuilding, lastIndexed, fileMap, vault, chunks, links, nWrites,
                   lastRead, raisedEver>>
    /\ UNCHANGED exceptIx

\* A thread calls delete_note(p).
DeleteNoteCall(t, p) ==
    /\ th[t].pc = "idle"
    /\ nOps < MaxOps
    /\ nOps' = nOps + 1
    /\ Begin(t, "delete", p, "nd_chunks")
    /\ UNCHANGED <<rebuilding, lastIndexed, fileMap, vault, chunks, links, nWrites,
                   lastRead, raisedEver>>
    /\ UNCHANGED exceptIx

\* A thread calls rename_note(old, new).
RenameNoteCall(t, old, new) ==
    /\ th[t].pc = "idle"
    /\ nOps < MaxOps
    /\ nOps' = nOps + 1
    /\ lastReturn' = "none"
    /\ th' = [th EXCEPT ![t] = [Idle EXCEPT !.pc = "nd_chunks", !.op = "rename",
                                            !.arg = old, !.todo = <<new>>]]
    /\ UNCHANGED <<rebuilding, lastIndexed, fileMap, vault, chunks, links, nWrites,
                   lastRead, raisedEver>>
    /\ UNCHANGED exceptIx

\* A handler records its event: event_log.record(WatcherEvent(...)).
HandlerRecord(t) ==
    /\ th[t].pc = "record"
    /\ nEvents' = nEvents + 1
    /\ buffer' = DequeAppend(buffer, HandlerEvent(t))
    /\ recorded' = Append(recorded, HandlerEvent(t))
    /\ Step(t, [th[t] EXCEPT !.pc = AfterRecord(th[t].op)])
    /\ UNCHANGED <<rebuilding, lastIndexed, fileMap, vault, chunks, links, nOps, nWrites,
                   lastRead, raisedEver>>
    /\ UNCHANGED <<dbVars, logRest, watchVars, mapVars, svcVars, srVars, ckVars, lkVars, cbVars>>

\* _on_file_changed: file_map.update_file(None, note_path), then the call of
\* index_single_note(note_path).
ChangedUpdate(t) ==
    /\ th[t].pc = "fc_update"
    /\ fileMap' = UpdateFile(fileMap, NoPath, th[t].arg)
    /\ Step(t, [th[t] EXCEPT !.pc = "sg_enter"])
    /\ UNCHANGED <<rebuilding, lastIndexed, vault, chunks, links, nOps, nWrites,
                   lastRead, raisedEver>>
    /\ UNCHANGED exceptIx

\* index_single_note called by a handler or by rename_note: a missing file is
\* skipped and the caller returns.
SingleEnter(t) ==
    /\ th[t].pc = "sg_enter"
    /\ IF FileFound(th[t].arg)
       THEN Step(t, [th[t] EXCEPT !.pc = FirstFileStep])
       ELSE Return(t, "single_done")
    /\ UNCHANGED <<rebuilding, lastIndexed, fileMap, vault, chunks, links, nOps, nWrites,
                   lastRead, raisedEver>>
    /\ UNCHANGED exceptIx

\* delete_note, rename_note: qdrant.delete_by_note_path(path).
NoteDeleteChunks(t) ==
    /\ th[t].pc = "nd_chunks"
    /\ \/ /\ chunks' = [chunks EXCEPT ![th[t].arg] = ChunksOf(0)]
          /\ Step(t, [th[t] EXCEPT !.pc = "nd_links",
                                   !.deleted = @ \cup {<<"chunks", th[t].arg>>}])
          /\ UNCHANGED raisedEver
       \/ /\ Raise(t)
          /\ UNCHANGED chunks
    /\ UNCHANGED <<rebuilding, lastIndexed, fileMap, vault, links, nOps, nWrites, lastRead>>
    /\ UNCHANGED exceptIx

\* delete_note, rename_note: qdrant.delete_links_by_source(path).
NoteDeleteLinks(t) ==
    /\ th[t].pc = "nd_links"
    /\ \/ /\ links' = [links EXCEPT ![th[t].arg] = {}]
          /\ Step(t, [th[t] EXCEPT !.pc = AfterNoteDeletes(th[t].op),
                                   !.deleted = @ \cup {<<"links", th[t].arg>>}])
          /\ UNCHANGED raisedEver
       \/ /\ Raise(t)
          /\ UNCHANGED links
    /\ UNCHANGED <<rebuilding, lastIndexed, fileMap, vault, chunks, nOps, nWrites, lastRead>>
    /\ UNCHANGED exceptIx

\* delete_note: file_map.remove_file(note_path), and the return.
DeleteNoteRemove(t) ==
    /\ th[t].pc = "dn_remove"
    /\ fileMap' = RemoveFileEntry(fileMap, th[t].arg)
    /\ Return(t, "delete_done")
    /\ UNCHANGED <<rebuilding, lastIndexed, vault, chunks, links, nOps, nWrites,
                   lastRead, raisedEver>>
    /\ UNCHANGED exceptIx

\* rename_note: file_map.update_file(old_path, new_path), then the call of
\* index_single_note(new_path); from here arg is the new path and todo keeps
\* the old one.
RenameUpdate(t) ==
    /\ th[t].pc = "rn_update"
    /\ fileMap' = UpdateFile(fileMap, th[t].arg, th[t].todo[1])
    /\ Step(t, [th[t] EXCEPT !.pc = "sg_enter", !.arg = th[t].todo[1],
                             !.todo = <<th[t].arg>>])
    /\ UNCHANGED <<rebuilding, lastIndexed, vault, chunks, links, nOps, nWrites,
                   lastRead, raisedEver>>
    /\ UNCHANGED exceptIx

NextNotes ==
    \/ \E p \in Edited, b \in Bodies : WriteFile(p, b)
    \/ \E p \in Edited : RemoveFile(p)
    \/ \E t \in Callers : Initialize(t)
    \/ \E t \in Callers, o \in {"changed", "deleted"}, p \in Paths : HandlerCall(t, o, p)
    \/ \E t \in Callers, old \in Paths : \E new \in Paths \ {old} : MovedCall(t, old, new)
    \/ \E t \in Callers, p \in Paths : DeleteNoteCall(t, p)
    \/ \E t \in Callers, old \in Paths : \E new \in Paths \ {old} : RenameNoteCall(t, old, new)
    \/ \E t \in Callers, p \in Paths : SingleCall(t, p)
    \/ \E t \in Callers : HandlerRecord(t)
    \/ \E t \in Callers : ChangedUpdate(t)
    \/ \E t \in Callers : SingleEnter(t)
    \/ \E t \in Callers : NoteDeleteChunks(t)
    \/ \E t \in Callers : NoteDeleteLinks(t)
    \/ \E t \in Callers : DeleteNoteRemove(t)
    \/ \E t \in Callers : RenameUpdate(t)
    \/ \E t \in Callers : DeleteChunks(t)
    \/ \E t \in Callers : DeleteLinks(t)
    \/ \E t \in Callers : ReadFile(t)
    \/ \E t \in Callers : UpsertChunks(t)
    \/ \E t \in Callers : UpsertLinks(t)

SpecNotes == Init /\ [][NextNotes]_vars

\* Mutant of StatusLastIndexed: get_status reports no rebuild.
StatusLastIndexedNone(li) == 0

\* get_status: `last_indexed=self._last_indexed`
StatusLastIndexed(li) == li

\* A thread calls get_status().
GetStatus ==
    /\ status' = <<StatusLastIndexed(lastIndexed)>>
    /\ UNCHANGED <<watching, dbVars, ixVars, logVars, watchVars, mapVars, srVars, ckVars, lkVars, cbVars>>

\* the thread of the watcher and of the note routes
Workers == {"t2"}

\* rebuild_index called by either thread while the other thread runs the
\* handlers, delete_note, rename_note and index_single_note
NextMixed ==
    \/ GetStatus
    \/ \E t \in Threads : RebuildCall(t)
    \/ \E t \in Threads : RebuildTest(t)
    \/ \E t \in Threads : RebuildSet(t)
    \/ \E t \in Threads : RebuildScan(t)
    \/ \E t \in Threads : RebuildNext(t)
    \/ \E t \in Threads : RebuildFinally(t)
    \/ \E t \in Workers, o \in {"changed", "deleted"}, p \in Paths : HandlerCall(t, o, p)
    \/ \E t \in Workers, old \in Paths : \E new \in Paths \ {old} : MovedCall(t, old, new)
    \/ \E t \in Workers, p \in Paths : DeleteNoteCall(t, p)
    \/ \E t \in Workers, old \in Paths : \E new \in Paths \ {old} : RenameNoteCall(t, old, new)
    \/ \E t \in Workers, p \in Paths : SingleCall(t, p)
    \/ \E t \in Threads : HandlerRecord(t)
    \/ \E t \in Threads : ChangedUpdate(t)
    \/ \E t \in Threads : SingleEnter(t)
    \/ \E t \in Threads : NoteDeleteChunks(t)
    \/ \E t \in Threads : NoteDeleteLinks(t)
    \/ \E t \in Threads : DeleteNoteRemove(t)
    \/ \E t \in Threads : RenameUpdate(t)
    \/ \E t \in Threads : DeleteChunks(t)
    \/ \E t \in Threads : DeleteLinks(t)
    \/ \E t \in Threads : ReadFile(t)
    \/ \E t \in Threads : UpsertChunks(t)
    \/ \E t \in Threads : UpsertLinks(t)

SpecMixed == Init /\ [][NextMixed]_vars

\* rebuild_index called by one thread at a time, while the user edits the vault
NextRebuild ==
    \/ \E p \in Edited, b \in Bodies : WriteFile(p, b)
    \/ \E p \in Edited : RemoveFile(p)
    \/ \E t \in Callers : RebuildCall(t)
    \/ \E t \in Callers : RebuildTest(t)
    \/ \E t \in Callers : RebuildSet(t)
    \/ \E t \in Callers : RebuildScan(t)
    \/ \E t \in Callers : RebuildNext(t)
    \/ \E t \in Callers : DeleteChunks(t)
    \/ \E t \in Callers : DeleteLinks(t)
    \/ \E t \in Callers : ReadFile(t)
    \/ \E t \in Callers : UpsertChunks(t)
    \/ \E t \in Callers : UpsertLinks(t)
    \/ \E t \in Callers : RebuildFinally(t)

SpecRebuild == Init /\ [][NextRebuild]_vars

\* a file is deleted and the watcher delivers the notification while a
\* rebuild or an index_single_note is under way on another thread
NextRace ==
    \/ \E p \in Edited : RemoveFile(p)
    \/ RebuildCall("t1")
    \/ \E p \in Paths : SingleCall("t1", p)
    \/ \E p \in Paths : ~vault[p].exists /\ HandlerCall("t2", "deleted", p)
    \/ \E t \in Threads : RebuildTest(t)
    \/ \E t \in Threads : RebuildSet(t)
    \/ \E t \in Threads : RebuildScan(t)
    \/ \E t \in Threads : RebuildNext(t)
    \/ \E t \in Threads : RebuildFinally(t)
    \/ \E t \in Threads : HandlerRecord(t)
    \/ \E t \in Threads : NoteDeleteChunks(t)
    \/ \E t \in Threads : NoteDeleteLinks(t)
    \/ \E t \in Threads : DeleteNoteRemove(t)
    \/ \E t \in Threads : DeleteChunks(t)
    \/ \E t \in Threads : DeleteLinks(t)
    \/ \E t \in Threads : ReadFile(t)
    \/ \E t \in Threads : UpsertChunks(t)
    \/ \E t \in Threads : UpsertLinks(t)

SpecRace == Init /\ [][NextRace]_vars

\* _fire, outside the lock, with the callback start_watcher gives the
\* debouncer: the timer thread calls _on_file_changed(key) and goes on as
\* thread t of the IndexService, the debouncer having done with it
FireOnFileChanged(i, t) ==
    /\ timer[i].state = "popped"
    /\ th[t].pc = "idle"
    /\ nOps < MaxOps
    /\ nOps' = nOps + 1
    /\ calls' = [calls EXCEPT ![timer[i].key] = @ + 1]
    /\ timer' = [timer EXCEPT ![i].state = "done"]
    /\ Begin(t, "changed", timer[i].key, "record")
    /\ UNCHANGED <<now, timers, nTimers, trigPc, trigKey, trigCount, lastArrival, rapid,
                   cancelled>>
    /\ UNCHANGED <<rebuilding, lastIndexed, fileMap, vault, chunks, links, nWrites,
                   lastRead, raisedEver>>
    /\ UNCHANGED <<logVars, watchVars, mapVars, svcVars, srVars, ckVars, lkVars, cbVars>>

\* the watcher started: the observer thread t2 delivers the changes of a note
\* to the debouncer and, once the file is removed, its deletion to
\* _on_file_deleted, after which it has nothing more to report of the note;
\* the timers fire on thread t1
NextDelete ==
    \/ Tick
    \/ \E k \in Keys :
          /\ vault[k].exists
          /\ th["t2"].pc = "idle"
          /\ Notify(k)
    \/ TriggerLocked
    \/ \E i \in TimerIds : Expire(i)
    \/ \E i \in TimerIds : FirePop(i)
    \/ \E i \in TimerIds : FireOnFileChanged(i, "t1")
    \/ \E p \in Edited : trigPc = "idle" /\ RemoveFile(p)
    \/ \E p \in Paths :
          /\ ~vault[p].exists
          /\ trigPc = "idle"
          /\ \A i \in 1..Len(recorded) : recorded[i].path # p \/ recorded[i].type # "deleted"
          /\ HandlerCall("t2", "deleted", p)
    \/ \E t \in Threads : HandlerRecord(t)
    \/ \E t \in Threads : ChangedUpdate(t)
    \/ \E t \in Threads : SingleEnter(t)
    \/ \E t \in Threads : NoteDeleteChunks(t)
    \/ \E t \in Threads : NoteDeleteLinks(t)
    \/ \E t \in Threads : DeleteNoteRemove(t)
    \/ \E t \in Threads : DeleteChunks(t)
    \/ \E t \in Threads : DeleteLinks(t)
    \/ \E t \in Threads : ReadFile(t)
    \/ \E t \in Threads : UpsertChunks(t)
    \/ \E t \in Threads : UpsertLinks(t)

SpecDelete == Init /\ [][NextDelete]_vars

SpecStop == Init /\ [][NextStop]_vars

SpecWatch == Init /\ [][NextWatch]_vars

SpecMap == Init /\ [][NextMap]_vars
SpecLinks == Init /\ [][NextLinks]_vars
SpecScan == Init /\ [][NextScan]_vars

SpecSearch == Init /\ [][NextSearch]_vars

SpecChunk == Init /\ [][NextChunk]_vars

NextLog ==
    \/ \E w \in Writers : RecordCall(w)
    \/ \E w \in Writers : RecordLocked(w)
    \/ \E r \in Readers, limit \in Limits : GetRecentCall(r, limit)
    \/ \E r \in Readers : GetRecentLocked(r)
    \/ \E r \in Readers : GetRecentReturn(r)

SpecLog == Init /\ [][NextLog]_vars

NextDeb ==
    \/ Tick
    \/ \E k \in Keys : TriggerCall(k)
    \/ TriggerLocked
    \/ \E i \in TimerIds : Expire(i)
    \/ \E i \in TimerIds : FirePop(i)
    \/ \E i \in TimerIds : FireCallback(i)
    \/ CancelAll

SpecDeb == Init /\ [][NextDeb]_vars
SpecFire == Init /\ [][NextFire]_vars

\* The scheduler runs every timer thread and the triggering thread, the lock
\* is released after each locked section, and time passes.
FairDeb ==
    /\ SpecDeb
    /\ WF_vars(Tick)
    /\ WF_vars(TriggerLocked)
    /\ \A i \in TimerIds : WF_vars(Expire(i) \/ FirePop(i) \/ FireCallback(i))

(***************************************************************************)
(* Claims about IndexService                                               *)
(***************************************************************************)
\* the statements that index one file, after the test of the file
FileSteps == {"del_chunks", "del_links", "read", "up_chunks", "up_links"}

AllIdle == \A t \in Threads : th[t].pc = "idle"

\* C1: at most one rebuild_index call executes the rebuild body at a time.
C1_AtMostOneRebuild ==
    Cardinality({t \in Threads : InRebuild(t)}) <= 1

\* C2: a rebuild_index call that tests the flag while it is set is not
\* blocked, and its next step returns the "already running" value to the
\* caller, with no scan and no storage or embedding call in between, leaving
\* the flag, lastIndexed, the file map and both collections as they were.
C2_RejectedWhileRebuilding ==
    /\ [](\A t \in Threads : th[t].pc = "rb_test" => ENABLED RebuildTest(t))
    /\ [][\A t \in Threads :
             (th[t].pc = "rb_test" /\ rebuilding /\ th'[t].pc # "rb_test") =>
                 /\ th'[t] = Idle
                 /\ lastReturn' = "already_running"
                 /\ UNCHANGED <<rebuilding, lastIndexed, fileMap, chunks, links, lastRead>>
         ]_vars

\* a call was rejected while another thread was in the rebuild body
C2_Witness ==
    /\ lastReturn = "already_running"
    /\ rebuilding
    /\ \E t \in Threads : InRebuild(t) /\ th[t].pc \in {"del_links", "read", "up_chunks"}

\* C3: a rebuild_index call that has set the flag leaves the rebuild body
\* only through the finally clause, which resets the flag, whether it returns
\* or raises; so the flag is set only while some call is in the rebuild body,
\* and a call is rejected only while another call is in the rebuild body.
C3_FlagReleasedOnEveryExit ==
    /\ []((\A t \in Threads : ~InRebuild(t)) => ~rebuilding)
    /\ [][\A t \in Threads :
             /\ (InRebuild(t) /\ th'[t].pc = "idle") =>
                    th[t].pc = "rb_finally" /\ rebuilding' = FALSE
             /\ (th[t].pc = "rb_test" /\ th'[t].pc = "idle") =>
                    \E u \in Threads \ {t} : InRebuild(u)
         ]_vars

\* the first operation was a rebuild that stored the chunks of both notes and
\* then raised; the flag is clear again and the second operation, a
\* rebuild_index call, has passed the test of the flag
C3_Witness ==
    /\ nOps = 2 /\ raisedEver /\ lastIndexed = 0
    /\ \A p \in Paths : chunks[p] # ChunksOf(0)
    /\ ~rebuilding
    /\ \E t \in Threads :
          th[t].pc = "rb_set" /\ \A u \in Threads \ {t} : th[u].pc = "idle"

\* C4: once the operations have finished (none of them having raised), the
\* chunks stored for each path are exactly the chunks of the content the
\* latest read of the file returned.
C4_FinalContentIndexed ==
    (AllIdle /\ ~raisedEver) => \A p \in Paths : chunks[p] = ChunksOf(lastRead[p])

\* C5: _index_file runs for a path only after the thread has issued both
\* deletes for that path; index_single_note(p) issues deletes for p only; and
\* when the (re)indexing of a file ran with no other operation beside it, it
\* leaves exactly the chunks and links of the body it read.
C5_DeleteBeforeInsert ==
    /\ [](\A t \in Threads :
             /\ th[t].pc \in {"read", "up_chunks", "up_links"} =>
                    {<<"chunks", th[t].arg>>, <<"links", th[t].arg>>} \subseteq th[t].deleted
             /\ th[t].op = "single" =>
                    th[t].deleted \subseteq {<<"chunks", th[t].arg>>, <<"links", th[t].arg>>})
    /\ [][\A t \in Threads :
             (/\ th[t].solo
              /\ th[t].pc \in {"read", "up_links"}
              /\ \/ th'[t].pc = "rb_next"
                 \/ th[t].op = "single" /\ th'[t].pc = "idle" /\ lastReturn' = "single_done")
             => /\ chunks'[th[t].arg] = ChunksOf(lastRead'[th[t].arg])
                /\ links'[th[t].arg] = WikiLinks(lastRead'[th[t].arg])
         ]_vars

\* after a successful rebuild a.md shrank, and index_single_note("a.md"),
\* running alone, has written the chunks of the shorter body and no other
C5_Witness ==
    /\ lastIndexed = 1 /\ nWrites = 1
    /\ \E t \in Threads :
          /\ th[t].op = "single" /\ th[t].arg = "a.md" /\ th[t].pc = "up_links"
          /\ th[t].solo
          /\ th[t].cur < MaxChunks
          /\ chunks["a.md"] = ChunksOf(th[t].cur)

(***************************************************************************)
(* Claims about the rebuild                                                *)
(***************************************************************************)
\* the paths thread t has issued the two deletes for
Processed(t) ==
    {p \in Paths : {<<"chunks", p>>, <<"links", p>>} \subseteq th[t].deleted}

\* the rebuild of thread t is at its return statement
AtSuccess(t) == th[t].op = "rebuild" /\ th[t].pc = "rb_finally" /\ ~th[t].exc

\* C21: a file that cannot be read during a rebuild is skipped: nothing is
\* raised, the loop goes on with the remaining files, nothing is upserted for
\* the file, and the rebuild returns success with the flag reset.
C21_UnreadableFileSkipped ==
    /\ [](\A t \in Threads :
            AtSuccess(t) =>
              /\ Processed(t) = {th[t].files[i] : i \in 1..Len(th[t].files)}
              /\ \A p \in Processed(t) :
                   lastRead[p] = 0 => chunks[p] = ChunksOf(0) /\ links[p] = {})
    /\ [][\A t \in Threads :
            /\ (th[t].op = "rebuild" /\ th[t].pc = "read" /\ th'[t] # th[t]
                  /\ ~vault[th[t].arg].exists) =>
                 /\ th'[t].pc = "rb_next" /\ ~th'[t].exc
                 /\ th'[t].todo = th[t].todo
                 /\ th'[t].made = th[t].made
                 /\ raisedEver' = raisedEver
                 /\ chunks' = chunks /\ links' = links
                 /\ rebuilding' = rebuilding
            /\ (AtSuccess(t) /\ th'[t] # th[t]) =>
                 /\ th'[t].pc = "idle" /\ lastReturn' = "success"
                 /\ ~rebuilding']_vars

\* a.md was enumerated and then removed: its read failed, b.md was indexed
\* after it, and the rebuild is about to return success
C21_Witness ==
    /\ AtSuccess("t1")
    /\ th["t1"].files = <<"a.md", "b.md">>
    /\ ~vault["a.md"].exists /\ lastRead["a.md"] = 0
    /\ chunks["a.md"] = ChunksOf(0)
    /\ chunks["b.md"] # ChunksOf(0)
    /\ ~raisedEver

\* the position of a path in the ascending order of the relative paths
Rank(p) == CHOOSE i \in 1..Len(SortedPaths) : SortedPaths[i] = p

\* the sum of the chunk counts the latest reads of the files of list fs gave
RECURSIVE ChunksRead(_)
ChunksRead(fs) == IF fs = <<>> THEN 0 ELSE lastRead[Head(fs)] + ChunksRead(Tail(fs))

NoteOps == {"changed", "deleted", "moved", "delete", "rename", "single"}

\* C23: lastIndexed changes only at the end of a rebuild that runs to
\* successful completion, which then returns its response; a rejected or
\* raising rebuild, index_single_note, delete_note, rename_note and the
\* watcher callbacks leave it unchanged; get_status reports its value.
C23_LastIndexedOnlyOnSuccess ==
    /\ [][lastIndexed' # lastIndexed =>
            \E t \in Threads :
                /\ th[t].op = "rebuild" /\ th[t].pc = "rb_next" /\ th[t].todo = <<>>
                /\ th[t].notes = Len(th[t].files)
                /\ AtSuccess(t)']_vars
    /\ [][\A t \in Threads :
            /\ (th'[t] # th[t] /\ (th[t].op \in NoteOps \/ th'[t].op \in NoteOps)) =>
                 lastIndexed' = lastIndexed
            /\ (th[t].op = "rebuild" /\ th'[t].pc = "idle") =>
                 /\ lastIndexed' = lastIndexed
                 /\ lastReturn' = "success" <=> AtSuccess(t)]_vars
    /\ [][status' # status => status' = <<lastIndexed>>]_vars

\* one rebuild succeeded, a later one raised, and get_status then reported
\* the time of the first
C23_Witness ==
    /\ lastIndexed = 1
    /\ lastReturn = "rebuild_raised"
    /\ nOps = 2
    /\ AllIdle
    /\ status = <<1>>

\* the next statement of the note operation of thread t
NoteStep(t) ==
    \/ HandlerRecord(t) \/ ChangedUpdate(t) \/ SingleEnter(t)
    \/ NoteDeleteChunks(t) \/ NoteDeleteLinks(t) \/ DeleteNoteRemove(t)
    \/ RenameUpdate(t) \/ DeleteChunks(t) \/ DeleteLinks(t) \/ ReadFile(t)
    \/ UpsertChunks(t) \/ UpsertLinks(t)

\* C24: the note operations are not gated by the rebuilding flag: whatever
\* the flag, a running note operation can take its next statement, its steps
\* leave the flag as it is, and it never returns the rejection of a rebuild.
C24_NoteOpsNotGated ==
    /\ [](\A t \in Threads :
            (th[t].op \in NoteOps /\ th[t].pc # "idle") => ENABLED NoteStep(t))
    /\ [][\A t \in Threads :
            /\ (th[t].op \in NoteOps /\ th'[t] # th[t]) =>
                 /\ rebuilding' = rebuilding
                 /\ th'[t].pc = "idle" =>
                      lastReturn' \in {"single_done", "single_raised", "delete_done"}
            /\ (th[t].pc = "idle" /\ th'[t].op \in NoteOps) =>
                 /\ rebuilding' = rebuilding
                 /\ th'[t].pc \in {"record", "nd_chunks", FirstFileStep}]_vars

\* a rename_note in its last upsert while the rebuild of the other thread
\* has set the flag and not yet scanned
C24_Witness ==
    /\ rebuilding
    /\ th["t1"].op = "rebuild" /\ th["t1"].pc = "rb_scan"
    /\ th["t2"].op = "rename" /\ th["t2"].pc = "up_links"
    /\ <<"chunks", th["t2"].todo[1]>> \in th["t2"].deleted

\* C33: when a collaborator raises while a file is indexed the step upserts
\* nothing; index_single_note lets the exception reach its caller; a rebuild
\* goes to its finally clause and from there to its caller, with the flag
\* reset, lastIndexed as it was and without another file step.
C33_RaisePropagates ==
    [][\A t \in Threads :
         /\ (th[t].op = "rebuild" /\ ~th[t].exc /\ th'[t].exc) =>
              /\ th[t].pc \in FileSteps \cup {"rb_scan"}
              /\ th'[t].pc = "rb_finally"
              /\ chunks' = chunks /\ links' = links /\ lastIndexed' = lastIndexed
         /\ (th[t].exc /\ th'[t].pc # th[t].pc) =>
              /\ th'[t].pc = "idle"
              /\ lastReturn' = "rebuild_raised"
              /\ ~rebuilding'
              /\ chunks' = chunks /\ links' = links /\ lastIndexed' = lastIndexed
         /\ (th[t].op = "single" /\ th'[t].pc = "idle" /\ lastReturn' = "single_raised") =>
              chunks' = chunks /\ links' = links]_vars

\* a rebuild raised at the upsert of the links of a.md: the chunks of a.md
\* are stored, its links are not, b.md was not processed, the state is Idle
C33_Witness ==
    /\ lastReturn = "rebuild_raised"
    /\ nOps = 1
    /\ ~rebuilding /\ lastIndexed = 0
    /\ chunks["a.md"] = ChunksOf(MaxChunks) /\ links["a.md"] = {}
    /\ chunks["b.md"] = ChunksOf(0)

\* C40: in a rebuild the chunks and the links of a file are deleted before
\* the file is read: when the read fails they are gone, the step stores
\* nothing for the file, and the file is counted in notes_indexed with no
\* chunk added to chunks_created.
C40_DeletedBeforeFailedRead ==
    [][\A t \in Threads :
         (/\ th[t].op = "rebuild" /\ th[t].pc = "read" /\ th'[t].pc # "read"
          /\ ~vault[th[t].arg].exists) =>
             /\ {<<"chunks", th[t].arg>>, <<"links", th[t].arg>>} \subseteq th[t].deleted
             /\ chunks[th[t].arg] = ChunksOf(0) /\ links[th[t].arg] = {}
             /\ chunks' = chunks /\ links' = links
             /\ th'[t].pc = "rb_next"
             /\ th'[t].notes = th[t].notes + 1
             /\ th'[t].made = th[t].made]_vars

\* a first rebuild stored a.md; in the second a.md was removed after it was
\* enumerated: its chunks are gone and both files are counted
C40_Witness ==
    /\ AtSuccess("t1")
    /\ lastIndexed = 2
    /\ th["t1"].files = <<"a.md", "b.md">>
    /\ ~vault["a.md"].exists /\ lastRead["a.md"] = 0
    /\ chunks["a.md"] = ChunksOf(0) /\ links["a.md"] = {}
    /\ th["t1"].notes = 2

\* C38: a rebuild enumerates the files that are on disk and changes the
\* chunks and the links of the enumerated paths only: what the store holds
\* for a path whose file is gone is left as it is.
C38_StaleNotesSurviveRebuild ==
    [][/\ \A t \in Threads :
            (th[t].op = "rebuild" /\ th[t].pc = "rb_scan" /\ th'[t].pc = "rb_next") =>
                \A i \in 1..Len(th'[t].files) : vault[th'[t].files[i]].exists
       /\ \A p \in Paths :
            (chunks'[p] # chunks[p] \/ links'[p] # links[p]) =>
                \E t \in Threads :
                    /\ th[t].op = "rebuild" /\ th[t].arg = p
                    /\ \E i \in 1..Len(th[t].files) : th[t].files[i] = p]_vars

\* a.md was indexed and then removed: the next rebuild enumerated b.md only
\* and is about to return success with the chunks and the link of a.md stored
C38_Witness ==
    /\ AtSuccess("t1")
    /\ th["t1"].files = <<"b.md">>
    /\ ~vault["a.md"].exists
    /\ chunks["a.md"] = ChunksOf(MaxChunks) /\ links["a.md"] # {}

\* the delete notification of path p has been handled; with raisedEver
\* false the handler ran to its end
DeleteHandled(p) ==
    /\ \E i \in 1..Len(recorded) : recorded[i].type = "deleted" /\ recorded[i].path = p
    /\ \A t \in Threads : ~(th[t].op = "deleted" /\ th[t].arg = p /\ th[t].pc # "idle")

\* C35: once the delete notification of p has been handled and every
\* operation that was under way has returned, none of them having raised,
\* the store holds no chunk and no link of p.
C35_NothingLeftAfterDelete ==
    \A p \in Paths :
       (DeleteHandled(p) /\ ~raisedEver /\ AllIdle /\ ~vault[p].exists) =>
          chunks[p] = ChunksOf(0) /\ links[p] = {}

\* C34: once the delete notification of p has been handled (nothing having
\* raised) and no change of p is notified afterwards, no "created" or
\* "modified" event of p is recorded any more and has_file(p) stays false,
\* whatever timer of p was pending when the file was deleted.
C34_DeleteIsFinal ==
    /\ [](\A p \in Paths :
            (DeleteHandled(p) /\ ~raisedEver /\ trigPc = "idle") => ~HasFile(p))
    /\ [][\A p \in Paths :
            (DeleteHandled(p) /\ ~raisedEver /\ Len(recorded') > Len(recorded)) =>
               ~(/\ recorded'[Len(recorded')].path = p
                 /\ recorded'[Len(recorded')].type \in {"created", "modified"})]_vars

(***************************************************************************)
(* Claims about SearchService                                              *)
(***************************************************************************)
\* C26: search calls get_related_notes_batch exactly once, with the set of
\* the distinct note paths of the results, when include_related is true and
\* there are results, and not at all otherwise, the related notes then being
\* empty; there is never more than one call, however many results.
C26_OneBatchCall ==
    /\ Len(batchCalls) <= 1
    /\ searched = <<>> => batchCalls = <<>>
    /\ searched # <<>> =>
         LET s == searched[1]
         IN  IF s.include_related /\ Len(s.results) > 0
             THEN batchCalls = <<{p \in HitPaths : \E i \in 1..Len(s.results) : s.results[i] = p}>>
             ELSE batchCalls = <<>> /\ related = <<>>

\* the longest result list, with the same note twice: one call with fewer
\* paths than results
C26_Witness ==
    /\ searched # <<>>
    /\ Len(searched[1].results) = MaxHits
    /\ Len(batchCalls) = 1
    /\ Cardinality(batchCalls[1]) < MaxHits

\* the links of the answer whose related path is not a result, by position
Remaining ==
    {k \in 1..Len(searched[1].relations) :
        \A i \in 1..Len(searched[1].results) :
            searched[1].relations[k].related_path # searched[1].results[i]}

\* C27: the related notes hold no result path, hold one entry for each
\* (related path, relationship) pair of the remaining links and no other,
\* its link_count the number of those links, and are in non-increasing
\* order of link_count.
C27_RelatedNotesAggregated ==
    (searched # <<>> /\ batchCalls # <<>>) =>
        LET L == searched[1].relations
            Same(k, e) == L[k].related_path = e.note_path /\ L[k].relationship = e.relationship
        IN  /\ \A i \in 1..Len(related) :
                  /\ \A j \in 1..Len(searched[1].results) :
                        related[i].note_path # searched[1].results[j]
                  /\ related[i].link_count = Cardinality({k \in Remaining : Same(k, related[i])})
                  /\ related[i].link_count > 0
            /\ \A k \in Remaining :
                  Cardinality({i \in 1..Len(related) : Same(k, related[i])}) = 1
            /\ \A i, j \in 1..Len(related) :
                  i < j => related[i].link_count >= related[j].link_count

\* c.md is linked from a result once and links to results twice: two
\* entries for c.md, the backlinks first although the outgoing link was
\* counted first
C27_Witness ==
    /\ searched # <<>>
    /\ Len(searched[1].relations) = 3
    /\ searched[1].relations[1].relationship = "outgoing"
    /\ related = <<[note_path |-> "c.md", relationship |-> "backlink", link_count |-> 2],
                   [note_path |-> "c.md", relationship |-> "outgoing", link_count |-> 1]>>

(***************************************************************************)
(* Claims about the Chunker                                                *)
(***************************************************************************)
\* the body with its leading and trailing whitespace removed
TrimmedInput ==
    LET Ink == {i \in 1..Len(ck.content) : ck.content[i] \notin Whitespace}
    IN  IF Ink = {} THEN <<>>
        ELSE SubSeq(ck.content, CHOOSE i \in Ink : \A j \in Ink : i <= j,
                                CHOOSE i \in Ink : \A j \in Ink : j <= i)

\* chunk() returned the one chunk of the whole trimmed body
OneChunkOfInput ==
    /\ Len(ck.chunks) = 1
    /\ ck.chunks[1].content = TrimmedInput
    /\ ck.chunks[1].chunk_id = "a.md#chunk0"
    /\ ck.chunks[1].chunk_index = 0

\* C28 as stated: for every body shorter than the chunk size, chunk()
\* returns exactly one chunk, the trimmed input, with id path#chunk0 and
\* chunk index 0.
C28_ShortBodyOneChunk ==
    (ck.pc = "done" /\ Len(ck.content) < ck.chunk_size) => OneChunkOfInput

\* C28, amended: for every body without a heading line whose trimmed text
\* is not empty and not longer than the chunk size, chunk() returns exactly
\* one chunk, the trimmed input, with id path#chunk0, chunk index 0 and no
\* heading context; a body of whitespace only yields no chunk.
C28_ShortPlainBodyOneChunk ==
    (/\ ck.pc = "done"
     /\ \A n \in 1..Len(SplitLines(ck.content)) : ~IsHeading(SplitLines(ck.content)[n])
     /\ Len(TrimmedInput) <= ck.chunk_size) =>
        IF TrimmedInput = <<>> THEN ck.chunks = <<>>
        ELSE OneChunkOfInput /\ ck.chunks[1].heading_context = <<>>

\* the body is a blank line, " x" and a blank line, and the chunk is "x"
C28_Witness ==
    /\ ck.pc = "done"
    /\ ck.content = <<"\n", " ", "x", "\n">>
    /\ ck.chunk_size = 1
    /\ Len(ck.chunks) = 1
    /\ ck.chunks[1].content = <<"x">>

\* the heading levels active at line i of lines: the levels of the headings
\* before line i that no later heading before line i of the same or a
\* higher rank replaced or discarded
ActiveAt(lines, i) ==
    {j \in 1..(i - 1) :
        /\ IsHeading(lines[j])
        /\ \A k \in (j + 1)..(i - 1) :
              IsHeading(lines[k]) => Hashes(lines[k]) > Hashes(lines[j])}

\* the heading context of text read at line i: the texts of the active
\* headings from the highest rank to the deepest, joined by " > "
ContextAt(lines, i) ==
    IF ActiveAt(lines, i) = {} THEN <<>>
    ELSE LET lv == SortedLevels({Hashes(lines[j]) : j \in ActiveAt(lines, i)})
             At(l) == CHOOSE j \in ActiveAt(lines, i) : Hashes(lines[j]) = l
         IN  <<Join([n \in 1..Len(lv) |-> HeadingText(lines[At(lv[n])])], <<" ", ">", " ">>)>>

\* C29: after a heading of level L the heading table holds that heading at
\* level L and no deeper level, and the heading context of every chunk is
\* the " > "-joined texts of the levels active where its text was read, in
\* ascending level order, or none before the first heading.
C29_HeadingContext ==
    LET lines == SplitLines(ck.content)
    IN  ck.pc # "idle" =>
          /\ \A n \in 1..Len(lines) :
                IsHeading(lines[n]) =>
                    LET tbl == Scanned(lines, n).heading_by_level
                    IN  /\ Hashes(lines[n]) \in DOMAIN tbl
                        /\ tbl[Hashes(lines[n])] = HeadingText(lines[n])
                        /\ \A d \in DOMAIN tbl : d <= Hashes(lines[n])
          /\ \A i \in 1..Len(ck.chunks) :
                /\ ~IsHeading(lines[ck.chunks[i].at])
                /\ ck.chunks[i].heading_context = ContextAt(lines, ck.chunks[i].at)

\* H2 "A", H3 "B", H2 "C", then text: the context of the text is "C"
C29_Witness ==
    /\ ck.pc = "done"
    /\ ck.content = Join(<<<<"#", "#", " ", "A">>, <<"#", "#", "#", " ", "B">>,
                           <<"#", "#", " ", "C">>, <<" ", "x">>>>, <<"\n">>)
    /\ Len(ck.chunks) = 1
    /\ ck.chunks[1].heading_context = <<<<"C">>>>

\* C30: chunk() terminates for every configuration: each iteration of the
\* fixed-size split advances start, so that the loop over a text ends within
\* len(text) iterations.
C30_SplitAdvances ==
    /\ [](ck.pc = "split" => ck.iters <= Len(ck.text))
    /\ [][(ck.pc = "split" /\ ck'.pc = "split") => ck'.start > ck.start]_vars

(***************************************************************************)
(* Claims about the link collection                                        *)
(***************************************************************************)
\* C39: index_single_note(p), delete_note(p) and rename_note(p, q) change
\* only the links whose source_path is p or q: every point stored for another
\* source note is in the collection after the operation exactly as it was
\* before, so that its resolved target stays what it was.
C39_OtherSourcesUntouched ==
    [][\A p \in LinkSources, q \in LinkSources :
         (\/ \E texts \in SUBSET LinkTexts : IndexSingleNoteLinks(p, texts) /\ q = p
          \/ DeleteNoteLinks(p) /\ q = p
          \/ \E texts \in SUBSET LinkTexts : RenameNoteLinks(p, q, texts)) =>
            \A pt \in linkStore : pt.source_path \notin {p, q} => pt \in linkStore']_vars

(***************************************************************************)
(* Claims about the EventLog                                               *)
(***************************************************************************)
Min(a, b) == IF a < b THEN a ELSE b

\* the last n items of s
LastN(s, n) == SubSeq(s, Len(s) - n + 1, Len(s))

\* C11: the log never holds more than Capacity events, they are the latest
\* min(n, Capacity) of the n events appended, in the order of the appends, and
\* an append to a full log drops the oldest event and keeps the others.
C11_RingBufferKeepsNewest ==
    /\ [](/\ Len(buffer) <= Capacity
          /\ buffer = LastN(recorded, Min(Len(recorded), Capacity)))
    /\ [][buffer' # buffer =>
             IF Len(buffer) = Capacity
             THEN /\ Len(buffer') = Capacity
                  /\ \A i \in 1..(Capacity - 1) : buffer'[i] = buffer[i + 1]
             ELSE /\ Len(buffer') = Len(buffer) + 1
                  /\ \A i \in 1..Len(buffer) : buffer'[i] = buffer[i]
         ]_vars

\* two events have been evicted from a full log
C11_Witness ==
    /\ Len(recorded) = Capacity + 2
    /\ Len(buffer) = Capacity
    /\ buffer[1] = recorded[3]

\* C12: get_recent(limit) with limit >= 1 copies the whole buffer and returns
\* min(limit, size) events, the i-th returned being the i-th newest of the
\* copy; no step of get_recent changes the buffer.
C12_GetRecentNewestFirst ==
    [][\A r \in Readers :
          /\ (rd[r].pc = "called" /\ rd'[r].pc = "copied") => rd'[r].items = buffer
          /\ (rd[r].pc = "copied" /\ rd'[r].pc = "idle" /\ rd[r].limit >= 1) =>
                /\ Len(lastResult') = Min(rd[r].limit, Len(rd[r].items))
                /\ \A i \in 1..Len(lastResult') :
                      lastResult'[i] = rd[r].items[Len(rd[r].items) + 1 - i]
          /\ rd'[r] # rd[r] => buffer' = buffer
      ]_vars

\* get_recent(1) on a log of two events has returned the newer one alone
C12_Witness ==
    \E r \in Readers :
        /\ rd[r].pc = "idle" /\ rd[r].limit = 1
        /\ Len(rd[r].items) = 2
        /\ lastResult = <<rd[r].items[2]>>

\* C13: with writers and a reader interleaved, every event is appended exactly
\* once, when its record call runs its locked section; the buffer loses
\* events by eviction of the oldest only; and what get_recent copies and
\* returns is the content of the log when `at` appends had been made.
C13_ConcurrentRecordAndRead ==
    /\ \A i, j \in 1..Len(recorded) : i # j => recorded[i] # recorded[j]
    /\ \A e \in 1..nEvents :
          (\E i \in 1..Len(recorded) : recorded[i] = e)
              <=> ~(\E w \in Writers : wr[w].pc = "rec" /\ wr[w].ev = e)
    /\ buffer = LastN(recorded, Min(Len(recorded), Capacity))
    /\ \A r \in Readers :
          /\ rd[r].pc = "copied" =>
                /\ rd[r].at <= Len(recorded)
                /\ rd[r].items = LastN(SubSeq(recorded, 1, rd[r].at), Min(rd[r].at, Capacity))
          /\ (rd[r].pc = "idle" /\ nReads >= 1) =>
                /\ Len(lastResult) = Min(rd[r].limit, Min(rd[r].at, Capacity))
                /\ \A i \in 1..Len(lastResult) : lastResult[i] = recorded[rd[r].at + 1 - i]

\* the reader holds its copy while one event has been appended since and a
\* writer is about to append another
C13_Witness ==
    \E r \in Readers :
        /\ rd[r].pc = "copied"
        /\ rd[r].at >= 1
        /\ Len(recorded) > rd[r].at
        /\ \E w \in Writers : wr[w].pc = "rec"
        /\ rd[r].items # buffer

(***************************************************************************)
(* Claims about the watcher handlers, delete_note and rename_note          *)
(***************************************************************************)
\* the newest recorded event, in the log and in the buffer, is e
NewestEventIs(e) ==
    /\ Len(recorded) > 0 /\ recorded[Len(recorded)] = e
    /\ Len(buffer) > 0 /\ buffer[Len(buffer)] = e

\* C14: the debounced callback for a path records exactly one event, "created"
\* when the table does not know the path at that moment and "modified"
\* otherwise, then enters the path in the table, then indexes the note: the
\* event is in the log and the path in the table before any storage call.
C14_ChangedRecordsUpdatesThenIndexes ==
    /\ [](\A t \in Threads :
            th[t].op = "changed" =>
              /\ th[t].pc \in {"record", "fc_update"} => th[t].deleted = {}
              /\ th[t].pc \in {"fc_update", "sg_enter"} \cup FileSteps =>
                   \E ty \in {"created", "modified"} :
                      NewestEventIs([type |-> ty, path |-> th[t].arg, dest |-> NoPath])
              /\ th[t].pc \in {"sg_enter"} \cup FileSteps =>
                   fileMap[Stem(th[t].arg)] = th[t].arg)
    /\ [][\A t \in Threads :
            th[t].op = "changed" =>
              /\ recorded' # recorded =>
                   /\ th[t].pc = "record" /\ th'[t].pc = "fc_update"
                   /\ recorded' = Append(recorded,
                         [type |-> IF fileMap[Stem(th[t].arg)] # NoPath
                                   THEN "modified" ELSE "created",
                          path |-> th[t].arg, dest |-> NoPath])
              /\ (th[t].pc = "record" /\ th'[t] # th[t]) =>
                   Len(recorded') = Len(recorded) + 1
              /\ th[t].pc # "record" => Len(recorded') = Len(recorded)
              /\ th[t].pc # "record" => th'[t].pc # "record"
              /\ th[t].pc \in {"record", "fc_update", "sg_enter"} =>
                   chunks' = chunks /\ links' = links /\ lastRead' = lastRead
              /\ (th[t].pc = "fc_update" /\ th'[t] # th[t]) =>
                   /\ th'[t].pc = "sg_enter"
                   /\ fileMap'[Stem(th[t].arg)] = th[t].arg
              /\ th[t].pc # "fc_update" => fileMap' = fileMap]_vars

\* a second change of a note already indexed is recorded as "modified" after
\* the first was recorded as "created", and its storage calls have begun
C14_Witness ==
    /\ th["t1"].op = "changed" /\ th["t1"].pc = "up_links"
    /\ Len(recorded) = 2
    /\ recorded[1].type = "created" /\ recorded[2].type = "modified"

\* C16: when delete_note(p) completes, the store holds no chunk and no link
\* of p and the table does not know p; a delete notification records exactly
\* one "deleted" event for p before the first delete.
C16_DeleteNoteRemovesEverything ==
    /\ [](\A t \in Threads :
            th[t].op = "deleted" =>
              /\ th[t].pc = "record" => th[t].deleted = {}
              /\ th[t].pc \in {"nd_chunks", "nd_links", "dn_remove"} =>
                   NewestEventIs([type |-> "deleted", path |-> th[t].arg, dest |-> NoPath]))
    /\ [][\A t \in Threads :
            th[t].op \in {"deleted", "delete"} =>
              /\ (th[t].pc = "record" /\ th'[t] # th[t]) =>
                   /\ Len(recorded') = Len(recorded) + 1
                   /\ chunks' = chunks /\ links' = links /\ fileMap' = fileMap
              /\ th[t].pc # "record" => recorded' = recorded
              /\ (th[t].pc = "dn_remove" /\ th'[t] # th[t]) =>
                   /\ th'[t] = Idle /\ lastReturn' = "delete_done"
                   /\ chunks'[th[t].arg] = ChunksOf(0)
                   /\ links'[th[t].arg] = {}
                   /\ fileMap'[Stem(th[t].arg)] = NoPath]_vars

\* a note that was created and indexed is deleted by a notification
C16_Witness ==
    /\ lastReturn = "delete_done" /\ ~raisedEver
    /\ Len(recorded) = 2
    /\ recorded[1].type = "created" /\ recorded[2].type = "deleted"
    /\ recorded[1].path = recorded[2].path
    /\ lastRead[recorded[1].path] > 0
    /\ chunks[recorded[1].path] = ChunksOf(0)
    /\ fileMap[Stem(recorded[1].path)] = NoPath

\* the rename of thread t has updated the table: arg is the new path, todo
\* holds the old one
Renamed(t) ==
    /\ th[t].op \in {"rename", "moved"}
    /\ th[t].pc \in {"sg_enter"} \cup FileSteps

\* C17: rename_note(old, new) deletes the chunks and links of old, then
\* updates the table, then indexes new: afterwards the stem of old resolves
\* to nothing (the stems differ), the stem of new resolves to new, the delete
\* for old came before any upsert under new, and no chunk of old remains.
C17_RenameDeletesUpdatesThenIndexes ==
    /\ [](\A t \in Threads :
            /\ (th[t].op \in {"rename", "moved"} /\ th[t].pc = "rn_update") =>
                 /\ th[t].deleted = {<<"chunks", th[t].arg>>, <<"links", th[t].arg>>}
                 /\ chunks[th[t].arg] = ChunksOf(0)
                 /\ links[th[t].arg] = {}
            /\ Renamed(t) =>
                 /\ Resolve(Stem(th[t].arg)) = th[t].arg
                 /\ Stem(th[t].todo[1]) # Stem(th[t].arg) =>
                      Resolve(Stem(th[t].todo[1])) = NoPath
                 /\ {<<"chunks", th[t].todo[1]>>, <<"links", th[t].todo[1]>>} \subseteq th[t].deleted
                 /\ chunks[th[t].todo[1]] = ChunksOf(0))
    /\ [][\A t \in Threads :
            /\ (th[t].op \in {"rename", "moved"}
                  /\ th[t].pc \in {"record", "nd_chunks", "nd_links"}) =>
                 /\ fileMap' = fileMap
                 /\ chunks'[th[t].todo[1]] = chunks[th[t].todo[1]]
                 /\ links'[th[t].todo[1]] = links[th[t].todo[1]]
            /\ (Renamed(t) /\ th'[t].pc = "idle" /\ lastReturn' = "single_done") =>
                 /\ fileMap'[Stem(th[t].arg)] = th[t].arg
                 /\ Stem(th[t].todo[1]) # Stem(th[t].arg) =>
                      fileMap'[Stem(th[t].todo[1])] = NoPath
                 /\ chunks'[th[t].todo[1]] = ChunksOf(0)]_vars

\* a note that was indexed under the old path is being indexed under the new
\* one, the old path resolved before the rename and its chunks are gone
C17_Witness ==
    /\ Renamed("t1") /\ th["t1"].pc = "up_links"
    /\ lastRead[th["t1"].todo[1]] > 0
    /\ chunks[th["t1"].todo[1]] = ChunksOf(0)
    /\ chunks[th["t1"].arg] # ChunksOf(0)
    /\ Len(recorded) >= 1 /\ recorded[1].path = th["t1"].todo[1]
    /\ recorded[1].type = "created"

\* C20: index_single_note(p) for a file that does not exist returns normally
\* and issues no storage or embedding call: the store and the table are as
\* they were.
C20_MissingFileSkipped ==
    [][\A t \in Threads :
         /\ (th[t].pc = "sg_enter" /\ ~vault[th[t].arg].exists /\ th'[t] # th[t]) =>
              /\ th'[t] = Idle /\ lastReturn' = "single_done"
              /\ chunks' = chunks /\ links' = links /\ fileMap' = fileMap
              /\ lastRead' = lastRead /\ raisedEver' = raisedEver
         /\ (th[t].pc \in {"idle", "sg_enter"} /\ th'[t].pc \in FileSteps) =>
              vault[th'[t].arg].exists
         /\ (AllIdle /\ nOps' # nOps /\ lastReturn' = "single_done") =>
              /\ chunks' = chunks /\ links' = links /\ fileMap' = fileMap
              /\ lastRead' = lastRead /\ raisedEver' = raisedEver]_vars

\* a note was indexed, its file removed, and the change handler then skipped
\* it: its chunks are still in the store
C20_Witness ==
    /\ lastReturn = "single_done" /\ th["t1"].pc = "idle" /\ nOps = 2
    /\ ~vault["a.md"].exists
    /\ fileMap["a"] = "a.md"
    /\ chunks["a.md"] # ChunksOf(0)
    /\ Len(recorded) = 2 /\ recorded[2].path = "a.md"

(***************************************************************************)
(* Claims about the file watcher                                           *)
(***************************************************************************)
\* the paths of the model whose name ends in ".md"
MdPaths == {<<"/", "v", "/", "a", ".", "m", "d">>,
            <<"/", "v", "/", "b", ".", "m", "d">>,
            <<"/", "v", "/", "d", "/", "a", ".", "m", "d">>}

\* C15: a notification gives at most one callback: on_changed(relative path)
\* for the creation or modification of a watched file, on_deleted for its
\* deletion, on_moved(old, new) for a move between watched names,
\* on_deleted(old) for a move to a non-watched name, on_changed(new) for a
\* move from a non-watched name, and nothing for directories and for
\* notifications that involve only non-watched files.
C15_OneCallbackPerNotification ==
    /\ Len(invoked) <= 1
    /\ (event.kind = "none" \/ event.isDir) => invoked = <<>>
    /\ (event.kind \in {"created", "modified"} /\ ~event.isDir) =>
          invoked = IF event.src \in MdPaths
                    THEN <<Call("on_changed", <<RelPath(event.src)>>)>>
                    ELSE <<>>
    /\ (event.kind = "deleted" /\ ~event.isDir) =>
          invoked = IF event.src \in MdPaths
                    THEN <<Call("on_deleted", <<RelPath(event.src)>>)>>
                    ELSE <<>>
    /\ (event.kind = "moved" /\ ~event.isDir) =>
          /\ (event.src \in MdPaths /\ event.dest \in MdPaths) =>
                invoked = <<Call("on_moved", <<RelPath(event.src), RelPath(event.dest)>>)>>
          /\ (event.src \in MdPaths /\ event.dest \notin MdPaths) =>
                invoked = <<Call("on_deleted", <<RelPath(event.src)>>)>>
          /\ (event.src \notin MdPaths /\ event.dest \in MdPaths) =>
                invoked = <<Call("on_changed", <<RelPath(event.dest)>>)>>
          /\ (event.src \notin MdPaths /\ event.dest \notin MdPaths) =>
                invoked = <<>>

\* a note of a subdirectory is renamed to a name without the extension: the
\* handler reports the deletion of d/a.md
C15_Witness ==
    /\ event.kind = "moved" /\ ~event.isDir
    /\ event.src = <<"/", "v", "/", "d", "/", "a", ".", "m", "d">>
    /\ event.dest = <<"/", "v", "/", "a", ".", "t", "x", "t">>
    /\ invoked = <<Call("on_deleted", <<(<<"d", "/", "a", ".", "m", "d">>)>>)>>

(***************************************************************************)
(* Claims about the VaultFileMap                                           *)
(***************************************************************************)
\* the keys of the table, and the keys a lowercased stem of the model can be
KeysOf(m) == {e[1] : e \in m}
LowerStems == {<<"a">>, <<"b">>, <<"n">>}

\* C18: after scan() the table holds exactly one entry per distinct
\* lowercased stem of the watched files on disk and nothing else: entries of
\* before the scan, those of update() for files not on disk included, are
\* gone unless the scan found the file, and a second scan gives the same
\* table.
C18_ScanReplacesTable ==
    /\ [](scanned =>
            /\ \A e \in table :
                 /\ e[2] \in disk
                 /\ EndsWith(e[2], <<".", "m", "d">>)
                 /\ e[1] = StemOf(e[2])
            /\ \A path \in disk :
                 EndsWith(path, <<".", "m", "d">>) => StemOf(path) \in KeysOf(table)
            /\ \A e \in table, f \in table : e[1] = f[1] => e = f
            /\ KeysOf(table) \subseteq LowerStems)
    /\ [][scanned /\ scanned' => table' = table]_vars

\* three notes share the stem "a" and one file is not a note: the scan keeps
\* one entry for "a", the last the walk lists, and one for "b"
C18_Witness ==
    /\ scanned
    /\ disk = RelPaths
    /\ table = {<< <<"a">>, <<"s", "/", "a", ".", "m", "d">> >>,
                << <<"b">>, <<"b", ".", "m", "d">> >>}

\* C19: after any sequence of scan, update and remove each stem maps to at
\* most one path, every key is the lowercased filename stem of its path, and
\* an insert under a stem already present replaces the old path.
C19_OnePathPerStem ==
    /\ [](/\ \A e \in table, f \in table : e[1] = f[1] => e = f
          /\ \A e \in table : e[1] = StemOf(e[2]) /\ e[1] \in LowerStems
          /\ replaced # <<>> =>
               /\ \E e \in table : e[1] = StemOf(replaced) /\ e[2] # replaced
               /\ \A e \in table : e[2] # replaced)
    /\ [][\A new \in RelPaths :
            (<<StemOf(new), new>> \in table' /\ <<StemOf(new), new>> \notin table) =>
               \A e \in table' : e[1] = StemOf(new) => e[2] = new]_vars

\* update_file enters A.md while the table maps "a" to a.md: A.md takes the
\* place of a.md under the key "a"
C19_Witness ==
    /\ replaced = <<"a", ".", "m", "d">>
    /\ << <<"a">>, <<"A", ".", "m", "d">> >> \in table
    /\ Cardinality(table) = 2

\* C37: the table knows a file by its lowercased filename stem only.
\* has_file(p) is true exactly when some path with the stem of p is
\* recorded; remove_file(p) and update_file(p, q) take out the entry they
\* find under the stem of p whatever path it maps to, after which resolve of that stem is
\* None although the other note may still be on disk (no update_file(p, q)
\* to another stem leaves an entry under the stem of p); and while no scan
\* runs a stem only comes back by an update_file of a path with that stem.
C37_StemIdentifiesFile ==
    /\ [](\A p \in RelPaths :
            TableHas(table, p) <=> \E e \in table : StemOf(e[2]) = StemOf(p))
    /\ [][(disk' = disk /\ ~scanned') =>
            /\ \A p \in RelPaths :
                 LET stem == StemOf(p)
                 IN  /\ (table' \subseteq table /\ Remove(p)) =>
                          /\ ~TableHas(table', p)
                          /\ TableResolve(table', stem) = <<>>
                          /\ \A e \in table : e[1] # stem => e \in table'
                          /\ TableHas(table, p) =>
                               dropped' = <<p, TableResolve(table, stem)>>
                     /\ (dropped' = <<>> /\ stem \in KeysOf(table')) =>
                          \A e \in table' : e[1] # stem => ~Update(p, e[2])
            /\ \A k \in KeysOf(table') \ KeysOf(table) :
                 \E old \in RelPaths \cup {NoOldPath} :
                    Update(old, TableResolve(table', k))]_vars

\* a.md and s/a.md share the stem "a" and the scan kept s/a.md; a.md is
\* deleted and removed from the table: the entry of s/a.md went, and the
\* stem resolves to nothing while s/a.md is on disk
C37_Witness ==
    /\ dropped = << <<"a", ".", "m", "d">>, <<"s", "/", "a", ".", "m", "d">> >>
    /\ <<"s", "/", "a", ".", "m", "d">> \in disk
    /\ <<"a", ".", "m", "d">> \notin disk
    /\ TableResolve(table, <<"a">>) = <<>>
    /\ ~TableHas(table, <<"s", "/", "a", ".", "m", "d">>)
    /\ replaced = <<>>

\* C32: scan() replaces the table atomically for the readers: what has_file
\* and resolve of another thread answer while a scan runs, and so the event
\* type _on_file_changed derives from has_file, is what they answer on the
\* table of before the scan or on the table the scan ends with.
C32_ScanAtomicForReaders ==
    scanPos # 0 =>
       LET after == ScanFrom(Cleared(before), walk, 1)
       IN  \A p \in RelPaths :
              /\ TableHas(table, p) \in {TableHas(before, p), TableHas(after, p)}
              /\ EventType(TableHas(table, p)) \in
                    {EventType(TableHas(before, p)), EventType(TableHas(after, p))}
              /\ TableResolve(table, StemOf(p)) \in
                    {TableResolve(before, StemOf(p)), TableResolve(after, StemOf(p))}

(***************************************************************************)
(* Claims about the Debouncer                                              *)
(***************************************************************************)
\* the timers of key k that are started and have neither fired (run the
\* locked section of _fire) nor been cancelled
Outstanding(k) ==
    {i \in TimerIds : timer[i].key = k /\ timer[i].state \in {"waiting", "expired"}}

\* every timer thread started for key k has ended, and no trigger is in progress
Quiet(k) ==
    /\ trigPc = "idle"
    /\ \A i \in TimerIds :
          timer[i].key = k => timer[i].state \in {"unused", "cancelled", "done"}

\* C6: when every trigger of a key arrives less than the delay after the
\* previous one (and cancel_all is not called), the callback is invoked at
\* most once for the key, not before the delay of the last trigger has
\* elapsed (a trigger counting once it has returned), and exactly once when
\* all its timer threads have ended.
C6_CoalescedOnce ==
    \A k \in Keys :
        (trigCount[k] >= 1 /\ rapid[k] /\ ~cancelled) =>
            /\ calls[k] <= 1
            /\ (calls[k] >= 1 /\ trigPc = "idle") => now >= lastArrival[k] + Delay
            /\ Quiet(k) => calls[k] = 1

\* C7: once cancel_all has run, no timer created before it invokes the
\* callback, and cancel_all leaves pending_count at 0.
C7_CancelAllStopsCallbacks ==
    [][/\ \A i \in TimerIds :
             timer[i].swept => ~(timer[i].state = "popped" /\ timer'[i].state # "popped")
       /\ (\E i \in TimerIds : ~timer[i].swept /\ timer'[i].swept) => PendingCount' = 0
      ]_vars

\* C25: once stop_watcher has returned, no debounced callback is started any
\* more, the notifications delivered while it was running included.
C25_NoCallbackAfterStop ==
    [][~watching => calls' = calls]_vars

\* C8 as stated: when the callback raises, the timer table holds no entry for
\* the key of the failed invocation.
C8_NoEntryForFailedKey ==
    [][\A i \in TimerIds :
          (timer[i].state = "popped" /\ timer'[i].raised) =>
              timers'[timer[i].key] = NoTimer]_vars

\* the table refers only to timers that have not yet run _fire, and an
\* exception of the callback never leaves the timer thread
DebouncerIntact ==
    /\ \A k \in Keys :
          timers[k] # NoTimer =>
              /\ timer[timers[k]].key = k
              /\ timer[timers[k]].state \in {"waiting", "expired"}
    /\ \A i \in TimerIds : timer[i].state # "crashed"

\* C8 amended: an exception of the callback is caught; the table never holds
\* the failed timer (an entry under its key belongs to a trigger made after the
\* failed timer removed its own); and every timer started after a failure
\* ends by invoking the callback unless a later trigger of its key or
\* cancel_all cancels it: once a callback has raised, the timers started all
\* come to rest as done or cancelled.
C8_SurvivesCallbackException ==
    /\ []DebouncerIntact
    /\ <>[]((\E j \in TimerIds : timer[j].raised) =>
               \A i \in TimerIds : timer[i].state \in {"unused", "cancelled", "done"})

\* a callback raised, and a timer started later under the same key went on to
\* invoke the callback
C8_Witness ==
    \E j, i \in TimerIds :
        /\ j < i
        /\ timer[j].raised /\ timer[j].state = "done"
        /\ timer[i].key = timer[j].key
        /\ timer[i].state = "done" /\ ~timer[i].raised

\* C9: pending_count is the number of keys that have a timer started and
\* neither fired nor cancelled. A timer whose wait is over and that has not
\* yet run the locked section of _fire may be counted either way.
C9_PendingCountIsOutstanding ==
    /\ Cardinality({k \in Keys : \E i \in TimerIds :
                       timer[i].key = k /\ timer[i].state = "waiting"}) <= PendingCount
    /\ PendingCount <= Cardinality({k \in Keys : Outstanding(k) # {}})

\* C10: the locked section of trigger(a) leaves the table entry and the timer
\* of every other key as they were, and a key triggered once (with no
\* cancel_all) has its callback invoked at most once, and exactly once when
\* its timer thread has ended.
C10_DistinctKeysIndependent ==
    [][/\ (trigPc = "called" /\ trigPc' = "idle") =>
             \A b \in Keys \ {trigKey} :
                 /\ timers'[b] = timers[b]
                 /\ \A i \in TimerIds :
                       (timer[i].state # "unused" /\ timer[i].key = b) => timer'[i] = timer[i]
       /\ ((\A k \in Keys : trigCount'[k] = 1) /\ ~cancelled') =>
             \A k \in Keys :
                 /\ calls'[k] <= 1
                 /\ (\A i \in TimerIds : timer'[i].key = k =>
                        timer'[i].state \in {"unused", "done"}) /\ trigPc' = "idle"
                       => calls'[k] = 1
      ]_vars

\* both keys were triggered once, the second while the timer of the first was
\* pending, and each callback has been invoked once
C10_Witness ==
    /\ \A k \in Keys : trigCount[k] = 1 /\ calls[k] = 1
    /\ ~cancelled
    /\ \A i \in 1..2 : timer[i].state = "done"
    /\ \A k \in Keys : lastArrival[k] < Delay

\* the callback of timer thread i is running
Running(i) == timer[i].state = "running"

\* C31: the lock is never held while the callback runs: a callback that
\* calls trigger (for its own key or another one), pending_count or
\* cancel_all is not made to wait, and neither is the trigger of another
\* thread that arrives while a callback runs.
C31_CallbackOutsideLock ==
    \A i \in TimerIds :
       (timer[i].state \in {"popped", "running"}) =>
          /\ lock = NoTimer
          /\ Running(i) =>
               /\ ENABLED CallbackPendingCount(i)
               /\ ENABLED CallbackCancelAll(i)
               /\ (nTimers < MaxTimers /\ now + Delay <= MaxTime) =>
                     \A k \in Keys : ENABLED CallbackTrigger(i, k)
               /\ trigPc = "called" => ENABLED TriggerAcquired

\* the callback of a.md runs and has called trigger("b.md"), which no other
\* thread did: the timer of b.md is started and the lock is free again
C31_Witness ==
    /\ Running(1)
    /\ timer[1].key = "a.md"
    /\ timer[2].key = "b.md" /\ timer[2].state = "waiting"
    /\ trigKey = "a.md" /\ trigPc = "idle"
    /\ trigCount["b.md"] = 1
    /\ lock = NoTimer

\* C36: two callback invocations for one key never run at the same time.
C36_NoOverlappingCallbacks ==
    \A i \in TimerIds, j \in TimerIds :
       (i # j /\ Running(i) /\ Running(j)) => timer[i].key # timer[j].key

====
